---- MODULE Spec2Model ----
(***************************************************************************)
(* filedog: the directory watcher (FileWatcherService), its debouncing     *)
(* event handler (FileOrganizerHandler), the organizer that relocates a    *)
(* file into its type folder (FileOrganizer) and the command-line mover    *)
(* with collision renaming (CrossPlatformFileOrganizer._move_file).        *)
(*                                                                         *)
(* Time is counted in ticks of one time unit.  A threading.Timer is a      *)
(* record with the ticks left until it may fire; it may fire late, never   *)
(* early.  Timer.cancel() sets the timer's "finished" flag: a timer still  *)
(* waiting never runs its callback afterwards, a callback already running  *)
(* is not interrupted.                                                     *)
(*                                                                         *)
(* A lifecycle call of FileWatcherService is one step when it runs alone;  *)
(* the calls of two threads that overlap are steps of one statement each.  *)
(* The process holds two FileWatcherService objects over one config file:  *)
(* the tray application's, whose fields are the service variables, and the *)
(* main window's.  Calls can fail for reasons of the environment: a config *)
(* file that cannot be written, an observer or an emitter that cannot be   *)
(* started.                                                                *)
(***************************************************************************)
EXTENDS Integers, Sequences, FiniteSets, TLC

\* ------------------------------------------------------------------ bounds
\* Number of timer threads that can exist at once (waiting or in callback).
MaxTimers == 3
\* Largest collision depth tried for _move_file.
MaxCollisions == 3

\* ------------------------------------------------------- program constants
\* FileOrganizerHandler.processing_delay, in ticks.
processing_delay == 2

\* ------------------------------------------------------------- the universe
\* Paths that lifecycle calls are made with.
Dirs == {"D", "E"}
\* The watched directory whose entries are modelled.
WatchDir == "D"
\* Top-level file names of WatchDir.
Names == {"report.pdf", "a.png"}
\* File contents; a file with content "unreadable" makes the detector raise.
Contents == {"c1", "c2", "unreadable"}
NoFile == "NoFile"
\* A path that exists as a regular file.
RegularFiles == {"F"}
\* The directory_path arguments of the lifecycle calls, as path components.
PathArgs == { <<"D">>, <<"E">>, <<"F">>, <<"D", ".">>, <<"E", "..", "D">> }

RECURSIVE Collapse(_, _)
\* Lexical normalisation: "." is dropped, ".." removes the component before it.
Collapse(p, acc) ==
    IF p = <<>> THEN acc
    ELSE IF Head(p) = "." THEN Collapse(Tail(p), acc)
    ELSE IF Head(p) = ".."
    THEN Collapse(Tail(p), IF acc = <<>> THEN acc ELSE SubSeq(acc, 1, Len(acc) - 1))
    ELSE Collapse(Tail(p), Append(acc, Head(p)))
\* str(Path(directory_path).resolve()): every argument names an entry of the
\* common parent directory, which the last component identifies.
resolve(p) == LET q == Collapse(p, <<>>) IN q[Len(q)]
Free == [state |-> "free", path |-> "-", remaining |-> 0, cancelled |-> FALSE]

\* A type identifier is a sequence of tokens: "image/png" is <<"image/", "png">>,
\* so that str.startswith is the prefix relation on sequences.
IsPrefix(k, s) == Len(k) <= Len(s) /\ SubSeq(s, 1, Len(k)) = k

\* config/folder_config.json as loaded at import: an ordered table and a default.
folder_config ==
    [file_type |-> << [key |-> <<"image/">>, folder |-> "Images"],
                      [key |-> <<"application/", "pdf">>, folder |-> "PDFs"],
                      [key |-> <<"application/", "octet-stream">>, folder |-> "Binary_Files"] >>,
     default |-> "Other_Files"]

Folders == {folder_config.file_type[i].folder : i \in DOMAIN folder_config.file_type}
             \cup {folder_config.default}

\* ------------------------------------------ mapping tables and identifiers
\* Largest number of entries of a mapping table.
MaxTable == 3
\* Keys of mapping tables: a prefix, a longer prefix and a full identifier,
\* each a proper prefix of the next two, and an unrelated prefix.
KeyPool == { <<"image/">>, <<"application/">>, <<"application/", "pdf">> }
FolderOf(key) ==
    IF key = <<"image/">> THEN "Images"
    ELSE IF key = <<"application/">> THEN "Applications"
    ELSE "PDFs"
\* The tables json.load can return: the keys of a JSON object are distinct and
\* a dict keeps them in the order of the file.
Tables ==
    LET seqs == UNION {[1..k -> KeyPool] : k \in 0..MaxTable}
        inj == {q \in seqs : \A i \in DOMAIN q : \A j \in DOMAIN q : q[i] = q[j] => i = j}
    IN  {[file_type |-> [i \in DOMAIN q |-> [key |-> q[i], folder |-> FolderOf(q[i])]],
          default |-> "Other_Files"] : q \in inj}
\* Type identifiers: "", "image/png", "application/", "application/pdf",
\* "application/pdf-x", "application/zip", "text/plain".
TypeIds == { <<>>, <<"image/", "png">>, <<"application/">>, <<"application/", "pdf">>,
             <<"application/", "pdf", "-x">>, <<"application/", "zip">>,
             <<"text/", "plain">> }

\* The outcome of a call: a value returned or an exception raised.
Returned(v) == [raised |-> "none", value |-> v]
Raised(e) == [raised |-> e, value |-> ""]

\* A lookup that scans the keys an identifier starts with before the exact key.
get_folder_name_prefix_first(file_type, config_) ==
    LET tab == config_.file_type
        pref == {i \in DOMAIN tab : IsPrefix(tab[i].key, file_type)}
        Min(S) == CHOOSE i \in S : \A j \in S : i <= j
    IN  IF pref # {} THEN tab[Min(pref)].folder ELSE config_.default

\* A lookup that prefers the longest key the identifier starts with.
get_folder_name_longest_match(file_type, config_) ==
    LET tab == config_.file_type
        pref == {i \in DOMAIN tab : IsPrefix(tab[i].key, file_type)}
        Longest(S) == CHOOSE i \in S : \A j \in S : Len(tab[j].key) <= Len(tab[i].key)
    IN  IF pref # {} THEN tab[Longest(pref)].folder ELSE config_.default

\* FileOrganizer.get_folder_name: exact key, else first key in table order that
\* the identifier starts with, else the default.
get_folder_name(file_type, config_) ==
    LET tab == config_.file_type
        exact == {i \in DOMAIN tab : tab[i].key = file_type}
        pref == {i \in DOMAIN tab : IsPrefix(tab[i].key, file_type)}
        Min(S) == CHOOSE i \in S : \A j \in S : i <= j
    IN  IF exact # {} THEN tab[Min(exact)].folder
        ELSE IF pref # {} THEN tab[Min(pref)].folder
        ELSE config_.default

\* CrossPlatformFileOrganizer._get_folder_name: the same lookup on self.config.
cli_get_folder_name(file_type, config_) ==
    LET tab == config_.file_type
        First(S) == CHOOSE i \in S : \A j \in S : i <= j
        hit == {i \in DOMAIN tab : tab[i].key = file_type}
        starts == {i \in DOMAIN tab : IsPrefix(tab[i].key, file_type)}
    IN  IF hit # {} THEN tab[First(hit)].folder
        ELSE IF starts # {} THEN tab[First(starts)].folder
        ELSE config_.default

\* "x in s" for strings: x occurs in s as a contiguous part.
IsInfix(x, s) ==
    \E i \in 0..(Len(s) - Len(x)) : SubSeq(s, i + 1, i + Len(x)) = x

\* get_folder_name of the script main.py.  Its first test is
\* "file_type in config['file_type'][file_type]": the table is indexed before
\* membership is known (KeyError for an identifier that is no key), and the
\* test asks whether the identifier occurs in the folder name (one token).
main_get_folder_name(file_type, config_) ==
    LET tab == config_.file_type
        First(S) == CHOOSE i \in S : \A j \in S : i <= j
        hit == {i \in DOMAIN tab : tab[i].key = file_type}
        starts == {i \in DOMAIN tab : IsPrefix(tab[i].key, file_type)}
    IN  IF hit = {} THEN Raised("KeyError")
        ELSE IF IsInfix(file_type, <<tab[First(hit)].folder>>)
             THEN Returned(tab[First(hit)].folder)
        ELSE IF starts # {} THEN Returned(tab[First(starts)].folder)
        ELSE Returned(config_.default)

\* magic.from_file(path, mime=True).lower(): the detector reads the bytes; it
\* raises on a file it cannot read.
DetectorRaises(n, c) == c = "unreadable"
magic_from_file(n, c) ==
    IF n = "a.png" THEN <<"image/", "png">> ELSE <<"application/", "pdf">>

\* ---------------------------------------------------------------- the state
VARIABLES
    config,         \* watcher_config.json: watched_directories, watcher_enabled
    fs_dirs,        \* the members of Dirs that exist as directories
    is_running,     \* FileWatcherService.is_running
    observer,       \* FileWatcherService.observer: "None", "unstarted", "started"
    obs_watches,    \* the directories scheduled with the current observer
    watched_paths,  \* FileWatcherService.watched_paths (its keys)
    ret,            \* the last lifecycle call: name, return value, log message
    leaked,         \* watch sets of started observers self.observer no longer refers to
    timers,         \* the threading.Timer threads of the handler
    pending_files,  \* FileOrganizerHandler.pending_files: dict name -> timer
    top,            \* top-level files of WatchDir: name -> content
    org,            \* files in the type folders of WatchDir: <<folder, name>> -> content
    folders,        \* the type folders that exist in WatchDir
    quiet,          \* ticks since the last event for the name (capped)
    burst_fires,    \* callbacks started since the current burst of events began
    mv,             \* one CrossPlatformFileOrganizer._move_file call
    thr,            \* the lifecycle calls in flight, one per calling thread
    peer,           \* the FileWatcherService of the main window (second instance)
    gf,             \* one get_folder_name call: the table, the argument, the outcome
    scan,           \* one FileOrganizer.organize call on WatchDir (worker thread)
    proc,           \* the locals of the _process_file callbacks, one per timer
    cli,            \* one CrossPlatformFileOrganizer.organize_directory call
    ef,             \* a directory in which folders are ensured, and the last two calls
    cf,             \* watcher_config.json as the calls of two callers read and write it
    jn              \* the observer thread that a stop_watching call stops and joins

svc_vars == <<config, fs_dirs, is_running, observer, obs_watches, watched_paths, ret,
              leaked>>
hdl_vars == <<timers, pending_files, quiet, burst_fires>>
fs_vars == <<top, org, folders>>
org_vars == <<gf, scan, proc, cli, ef, cf, jn>>
ext_vars == <<thr, peer, org_vars>>
vars == <<config, fs_dirs, is_running, observer, obs_watches, watched_paths, ret,
          leaked, timers, pending_files, top, org, folders, quiet, burst_fires, mv,
          thr, peer, gf, scan, proc, cli, ef, cf, jn>>

TimerIds == 1..MaxTimers

\* ------------------------------------------------------ FileWatcherService
\* load_config when the file is missing: the default record.
DefaultConfig == [watched_directories |-> <<>>, watcher_enabled |-> FALSE]

InList(d, l) == \E i \in DOMAIN l : l[i] = d

\* list.remove(x): drops the first occurrence.
ListRemove(l, d) ==
    LET i == CHOOSE k \in DOMAIN l : l[k] = d /\ \A j \in 1..(k - 1) : l[j] # d
    IN  SubSeq(l, 1, i - 1) \o SubSeq(l, i + 1, Len(l))

Ret(op, value, log) == [op |-> op, value |-> value, log |-> log]

\* "self.observer = Observer()" drops the reference to the observer held
\* before; one that was started keeps running with its watches.
Dropped == IF observer = "started" THEN leaked \cup {obs_watches} ELSE leaked

\* start_watching without its watcher_enabled check.
StartBody_IgnoresEnabled(cfg, raises, op) ==
    IF is_running
    THEN /\ ret' = Ret(op, FALSE, "already_running")
         /\ UNCHANGED <<is_running, observer, obs_watches, watched_paths, leaked>>
    ELSE LET scheduled == {d \in fs_dirs : InList(d, cfg.watched_directories)}
         IN  /\ leaked' = Dropped
             /\ obs_watches' = scheduled
             /\ watched_paths' = watched_paths \cup scheduled
             /\ IF raises
                THEN /\ observer' = "unstarted"
                     /\ is_running' = is_running
                     /\ ret' = Ret(op, FALSE, "start_failed")
                ELSE /\ observer' = "started"
                     /\ is_running' = TRUE
                     /\ ret' = Ret(op, TRUE, "started")

\* start_watching without its is_running check.
StartBody_NoRunningCheck(cfg, raises, op) ==
    IF ~cfg.watcher_enabled
    THEN /\ ret' = Ret(op, FALSE, "disabled")
         /\ UNCHANGED <<is_running, observer, obs_watches, watched_paths, leaked>>
    ELSE LET scheduled == {d \in fs_dirs : InList(d, cfg.watched_directories)}
         IN  /\ leaked' = Dropped
             /\ obs_watches' = scheduled
             /\ watched_paths' = watched_paths \cup scheduled
             /\ IF raises
                THEN /\ observer' = "unstarted"
                     /\ is_running' = is_running
                     /\ ret' = Ret(op, FALSE, "start_failed")
                ELSE /\ observer' = "started"
                     /\ is_running' = TRUE
                     /\ ret' = Ret(op, TRUE, "started")

\* The body of start_watching, reading the persisted config cfg; raises says
\* whether observer.start() raises.
StartBody(cfg, raises, op) ==
    IF is_running
    THEN /\ ret' = Ret(op, FALSE, "already_running")
         /\ UNCHANGED <<is_running, observer, obs_watches, watched_paths, leaked>>
    ELSE IF ~cfg.watcher_enabled
    THEN /\ ret' = Ret(op, FALSE, "disabled")
         /\ UNCHANGED <<is_running, observer, obs_watches, watched_paths, leaked>>
    ELSE LET scheduled == {d \in fs_dirs : InList(d, cfg.watched_directories)}
         IN  /\ leaked' = Dropped
             /\ obs_watches' = scheduled
             /\ watched_paths' = watched_paths \cup scheduled
             /\ IF raises
                THEN /\ observer' = "unstarted"
                     /\ is_running' = is_running
                     /\ ret' = Ret(op, FALSE, "start_failed")
                ELSE /\ observer' = "started"
                     /\ is_running' = TRUE
                     /\ ret' = Ret(op, TRUE, "started")

\* stop_watching that forgets watched_paths.clear().
StopBody_KeepsHandles(op) ==
    IF ~is_running
    THEN /\ ret' = Ret(op, FALSE, "not_running")
         /\ UNCHANGED <<is_running, observer, obs_watches, watched_paths, leaked>>
    ELSE /\ observer' = "None"
         /\ UNCHANGED leaked
         /\ obs_watches' = {}
         /\ watched_paths' = watched_paths
         /\ is_running' = FALSE
         /\ ret' = Ret(op, TRUE, "stopped")

\* stop_watching without its is_running check.
StopBody_NoRunningCheck(op) ==
    /\ observer' = "None"
    /\ UNCHANGED leaked
    /\ obs_watches' = {}
    /\ watched_paths' = {}
    /\ is_running' = FALSE
    /\ ret' = Ret(op, TRUE, "stopped")

\* The body of stop_watching.
StopBody(op) ==
    IF ~is_running
    THEN /\ ret' = Ret(op, FALSE, "not_running")
         /\ UNCHANGED <<is_running, observer, obs_watches, watched_paths, leaked>>
    ELSE /\ observer' = "None"
         /\ UNCHANGED leaked
         /\ obs_watches' = {}
         /\ watched_paths' = {}
         /\ is_running' = FALSE
         /\ ret' = Ret(op, TRUE, "stopped")

start_watching(raises) ==
    /\ StartBody(config, raises, "start_watching")
    /\ UNCHANGED <<config, fs_dirs, hdl_vars, fs_vars, mv, ext_vars>>

stop_watching ==
    /\ StopBody("stop_watching")
    /\ UNCHANGED <<config, fs_dirs, hdl_vars, fs_vars, mv, ext_vars>>

\* save_config: the file holds cfg afterwards, or what it held when the write
\* fails (the failure is logged and False returned, which no caller reads).
save_config(cfg, saved) == IF saved THEN cfg ELSE config

set_watcher_enabled(enabled, saved, raises) ==
    /\ config' = save_config([config EXCEPT !.watcher_enabled = enabled], saved)
    /\ IF enabled /\ ~is_running
       THEN StartBody(config', raises, "set_watcher_enabled")
       ELSE IF ~enabled /\ is_running
       THEN StopBody("set_watcher_enabled")
       ELSE /\ ret' = Ret("set_watcher_enabled", TRUE, "saved")
            /\ UNCHANGED <<is_running, observer, obs_watches, watched_paths, leaked>>
    /\ UNCHANGED <<fs_dirs, hdl_vars, fs_vars, mv, ext_vars>>

\* Path.exists() and Path.is_dir()
exists(d) == d \in fs_dirs \/ d \in RegularFiles
\* An is_dir() that accepts every path.
is_dir_always(d) == TRUE
is_dir(d) == d \in fs_dirs

\* A membership test that never finds the path.
AlreadyWatched_never(d, cfg) == FALSE
\* "path_str not in config["watched_directories"]", negated.
AlreadyWatched(d, cfg) == InList(d, cfg.watched_directories)

\* sched_raises: observer.schedule raises inside _start_watching_directory (the
\* emitter of a running observer cannot be started); the exception is logged
\* there and not passed on.  A missing observer raises there as well.
add_watched_directory(p, saved, sched_raises) ==
    /\ LET d == resolve(p)
       IN  IF ~exists(d)
           THEN /\ ret' = Ret("add_watched_directory", FALSE, "does_not_exist")
                /\ UNCHANGED <<config, obs_watches, watched_paths>>
           ELSE IF ~is_dir(d)
           THEN /\ ret' = Ret("add_watched_directory", FALSE, "not_a_directory")
                /\ UNCHANGED <<config, obs_watches, watched_paths>>
           ELSE IF ~AlreadyWatched(d, config)
           THEN /\ config' = save_config(
                                [config EXCEPT !.watched_directories = Append(@, d)], saved)
                /\ ret' = Ret("add_watched_directory", TRUE, "added")
                /\ IF is_running /\ observer # "None" /\ ~sched_raises
                   THEN /\ obs_watches' = obs_watches \cup {d}
                        /\ watched_paths' = watched_paths \cup {d}
                   ELSE UNCHANGED <<obs_watches, watched_paths>>
           ELSE /\ ret' = Ret("add_watched_directory", FALSE, "already_watched")
                /\ UNCHANGED <<config, obs_watches, watched_paths>>
    /\ UNCHANGED <<fs_dirs, is_running, observer, leaked, hdl_vars, fs_vars, mv, ext_vars>>

remove_watched_directory(p, saved) ==
    /\ LET d == resolve(p)
       IN  IF InList(d, config.watched_directories)
           THEN /\ config' = save_config(
                                [config EXCEPT !.watched_directories = ListRemove(@, d)], saved)
                /\ ret' = Ret("remove_watched_directory", TRUE, "removed")
                /\ IF is_running /\ d \in watched_paths
                   THEN /\ obs_watches' = obs_watches \ {d}
                        /\ watched_paths' = watched_paths \ {d}
                   ELSE UNCHANGED <<obs_watches, watched_paths>>
           ELSE /\ ret' = Ret("remove_watched_directory", FALSE, "not_in_list")
                /\ UNCHANGED <<config, obs_watches, watched_paths>>
    /\ UNCHANGED <<fs_dirs, is_running, observer, leaked, hdl_vars, fs_vars, mv, ext_vars>>

\* get_status()["active_watches"].
active_watches == Cardinality(watched_paths)

\* The environment removes a directory (never the one whose files are modelled).
RemoveDir(d) ==
    /\ d \in fs_dirs /\ d # WatchDir
    /\ fs_dirs' = fs_dirs \ {d}
    /\ UNCHANGED <<config, is_running, observer, obs_watches, watched_paths, ret,
                   leaked, hdl_vars, fs_vars, mv, ext_vars>>

\* ------------------------- lifecycle calls from more than one thread
\* FileWatcherService holds no lock: a call made while another is in flight
\* runs statement by statement between the other's statements.
Threads == {1, 2}
ThrIdle == [op |-> "none", pc |-> "idle", cfg |-> DefaultConfig]

Goto(i, op, pc) == thr' = [thr EXCEPT ![i].op = op, ![i].pc = pc]
\* The call of thread i returns.
Return(i, op, value, log) ==
    /\ thr' = [thr EXCEPT ![i] = ThrIdle]
    /\ ret' = Ret(op, value, log)

\* start_watching: "if self.is_running: return False"
start_watching_enter(i) ==
    /\ thr[i].pc = "idle"
    /\ IF is_running
       THEN Return(i, "start_watching", FALSE, "already_running")
       ELSE Goto(i, "start_watching", "load") /\ UNCHANGED ret
    /\ UNCHANGED <<config, fs_dirs, is_running, observer, obs_watches, watched_paths,
                   leaked, hdl_vars, fs_vars, mv, peer, org_vars>>

\* config = self.load_config(); the watcher_enabled test
start_watching_load(i) ==
    /\ thr[i].op = "start_watching" /\ thr[i].pc = "load"
    /\ IF ~config.watcher_enabled
       THEN Return(i, "start_watching", FALSE, "disabled")
       ELSE /\ thr' = [thr EXCEPT ![i].pc = "observer", ![i].cfg = config]
            /\ UNCHANGED ret
    /\ UNCHANGED <<config, fs_dirs, is_running, observer, obs_watches, watched_paths,
                   leaked, hdl_vars, fs_vars, mv, peer, org_vars>>

\* self.observer = Observer()
start_watching_observer(i) ==
    /\ thr[i].op = "start_watching" /\ thr[i].pc = "observer"
    /\ leaked' = Dropped
    /\ observer' = "unstarted"
    /\ obs_watches' = {}
    /\ Goto(i, "start_watching", "schedule")
    /\ UNCHANGED <<config, fs_dirs, is_running, watched_paths, ret,
                   hdl_vars, fs_vars, mv, peer, org_vars>>

\* The loop over config["watched_directories"]: each existing directory is
\* scheduled with whatever self.observer is by now; with no observer the
\* attribute error is logged in _start_watching_directory.
start_watching_schedule(i) ==
    /\ thr[i].op = "start_watching" /\ thr[i].pc = "schedule"
    /\ LET scheduled == {d \in fs_dirs : InList(d, thr[i].cfg.watched_directories)}
       IN  IF observer = "None"
           THEN UNCHANGED <<obs_watches, watched_paths>>
           ELSE /\ obs_watches' = obs_watches \cup scheduled
                /\ watched_paths' = watched_paths \cup scheduled
    /\ Goto(i, "start_watching", "start")
    /\ UNCHANGED <<config, fs_dirs, is_running, observer, ret, leaked,
                   hdl_vars, fs_vars, mv, peer, org_vars>>

\* self.observer.start(): raises when there is no observer, when the observer
\* thread was started already, or when an emitter cannot be started.
start_watching_start(i, raises) ==
    /\ thr[i].op = "start_watching" /\ thr[i].pc = "start"
    /\ IF observer # "unstarted" \/ raises
       THEN /\ Return(i, "start_watching", FALSE, "start_failed")
            /\ UNCHANGED observer
       ELSE /\ observer' = "started"
            /\ Goto(i, "start_watching", "flag")
            /\ UNCHANGED ret
    /\ UNCHANGED <<config, fs_dirs, is_running, obs_watches, watched_paths, leaked,
                   hdl_vars, fs_vars, mv, peer, org_vars>>

\* self.is_running = True; return True
start_watching_flag(i) ==
    /\ thr[i].op = "start_watching" /\ thr[i].pc = "flag"
    /\ is_running' = TRUE
    /\ Return(i, "start_watching", TRUE, "started")
    /\ UNCHANGED <<config, fs_dirs, observer, obs_watches, watched_paths, leaked,
                   hdl_vars, fs_vars, mv, peer, org_vars>>

\* stop_watching: "if not self.is_running: return False"
stop_watching_enter(i) ==
    /\ thr[i].pc = "idle"
    /\ IF ~is_running
       THEN Return(i, "stop_watching", FALSE, "not_running")
       ELSE Goto(i, "stop_watching", "halt") /\ UNCHANGED ret
    /\ UNCHANGED <<config, fs_dirs, is_running, observer, obs_watches, watched_paths,
                   leaked, hdl_vars, fs_vars, mv, peer, org_vars>>

\* "if self.observer:" stop(), join(timeout=5), self.observer = None.  join
\* raises on an observer thread that was never started.
stop_watching_halt(i) ==
    /\ thr[i].op = "stop_watching" /\ thr[i].pc = "halt"
    /\ IF observer = "unstarted"
       THEN /\ Return(i, "stop_watching", FALSE, "stop_failed")
            /\ UNCHANGED <<observer, obs_watches>>
       ELSE /\ observer' = "None"
            /\ obs_watches' = {}
            /\ Goto(i, "stop_watching", "clear")
            /\ UNCHANGED ret
    /\ UNCHANGED <<config, fs_dirs, is_running, watched_paths, leaked,
                   hdl_vars, fs_vars, mv, peer, org_vars>>

\* self.watched_paths.clear()
stop_watching_clear(i) ==
    /\ thr[i].op = "stop_watching" /\ thr[i].pc = "clear"
    /\ watched_paths' = {}
    /\ Goto(i, "stop_watching", "flag")
    /\ UNCHANGED <<config, fs_dirs, is_running, observer, obs_watches, ret, leaked,
                   hdl_vars, fs_vars, mv, peer, org_vars>>

\* self.is_running = False; return True
stop_watching_flag(i) ==
    /\ thr[i].op = "stop_watching" /\ thr[i].pc = "flag"
    /\ is_running' = FALSE
    /\ Return(i, "stop_watching", TRUE, "stopped")
    /\ UNCHANGED <<config, fs_dirs, observer, obs_watches, watched_paths, leaked,
                   hdl_vars, fs_vars, mv, peer, org_vars>>

ThreadNext(raising) ==
    \/ \E i \in Threads : start_watching_enter(i)
    \/ \E i \in Threads : start_watching_load(i)
    \/ \E i \in Threads : start_watching_observer(i)
    \/ \E i \in Threads : start_watching_schedule(i)
    \/ \E i \in Threads, r \in raising : start_watching_start(i, r)
    \/ \E i \in Threads : start_watching_flag(i)
    \/ \E i \in Threads : stop_watching_enter(i)
    \/ \E i \in Threads : stop_watching_halt(i)
    \/ \E i \in Threads : stop_watching_clear(i)
    \/ \E i \in Threads : stop_watching_flag(i)

\* ------------------------------------- the main window's FileWatcherService
\* MainWindow.__init__ constructs a FileWatcherService of its own, next to the
\* one of TrayApplication: its own observer, handler and watched_paths over
\* the same watcher_config.json and the same directories.
PeerIdle == [is_running |-> FALSE, observer |-> "None", obs_watches |-> {},
             watched_paths |-> {}]

\* start_watching and stop_watching on the record of the second instance
\* (observer.start() succeeding).
PeerStart(p, cfg) ==
    IF p.is_running \/ ~cfg.watcher_enabled THEN p
    ELSE LET scheduled == {d \in fs_dirs : InList(d, cfg.watched_directories)}
         IN  [is_running |-> TRUE, observer |-> "started", obs_watches |-> scheduled,
              watched_paths |-> p.watched_paths \cup scheduled]
PeerStop(p) == IF ~p.is_running THEN p ELSE PeerIdle

\* MainWindow.toggle_watcher: self.watcher_service.set_watcher_enabled(enabled)
peer_set_watcher_enabled(enabled, saved) ==
    /\ config' = save_config([config EXCEPT !.watcher_enabled = enabled], saved)
    /\ peer' = IF enabled /\ ~peer.is_running THEN PeerStart(peer, config')
               ELSE IF ~enabled /\ peer.is_running THEN PeerStop(peer)
               ELSE peer
    /\ UNCHANGED <<fs_dirs, is_running, observer, obs_watches, watched_paths, ret,
                   leaked, hdl_vars, fs_vars, mv, thr, org_vars>>

\* MainWindow.quit_application_completely: stop_watching when is_running.
peer_stop_watching ==
    /\ peer.is_running
    /\ peer' = PeerStop(peer)
    /\ UNCHANGED <<svc_vars, hdl_vars, fs_vars, mv, thr, org_vars>>

PeerNext ==
    \/ \E b \in BOOLEAN, s \in BOOLEAN : peer_set_watcher_enabled(b, s)
    \/ peer_stop_watching

\* The live subscriptions that cover directory d: one for each started
\* observer that has d scheduled.
Subscriptions(d) ==
    (IF observer = "started" /\ d \in obs_watches THEN 1 ELSE 0)
    + Cardinality({w \in leaked : d \in w})
    + (IF peer.observer = "started" /\ d \in peer.obs_watches THEN 1 ELSE 0)

\* ---------------------------------------------------- FileOrganizerHandler
\* An observer thread delivers the events of WatchDir to the handler.
Delivered ==
    \/ observer = "started" /\ WatchDir \in obs_watches
    \/ \E w \in leaked : WatchDir \in w

\* dict[k] = v and "if k in dict: del dict[k]".
DictSet(f, k, v) == [x \in DOMAIN f \cup {k} |-> IF x = k THEN v ELSE f[x]]
DictDel(f, k) == [x \in DOMAIN f \ {k} |-> f[x]]

FreeSlots(tm) == {t \in TimerIds : tm[t].state = "free"}

\* Timer.cancel(): a waiting timer never runs (its thread ends); a running
\* callback only gets its flag set.
Cancel(tm, t) ==
    IF tm[t].state = "waiting" THEN [tm EXCEPT ![t] = Free]
    ELSE [tm EXCEPT ![t].cancelled = TRUE]

\* threading.Timer(processing_delay, _process_file, [file_path]).start()
NewTimer(n) ==
    [state |-> "waiting", path |-> n, remaining |-> processing_delay, cancelled |-> FALSE]

\* _schedule_file_processing, atomic under timer_lock.
schedule_file_processing(n) ==
    LET tm == IF n \in DOMAIN pending_files THEN Cancel(timers, pending_files[n])
              ELSE timers
    IN  /\ FreeSlots(tm) # {}
        /\ LET id == CHOOSE t \in FreeSlots(tm) : \A u \in FreeSlots(tm) : t <= u
           IN  /\ timers' = [tm EXCEPT ![id] = NewTimer(n)]
               /\ pending_files' = DictSet(pending_files, n, id)
        /\ burst_fires' = [burst_fires EXCEPT
                             ![n] = IF quiet[n] >= processing_delay THEN 0 ELSE @]
        /\ quiet' = [quiet EXCEPT ![n] = 0]

\* on_created
on_created(is_directory, src_path) ==
    IF ~is_directory THEN schedule_file_processing(src_path) ELSE UNCHANGED hdl_vars

\* An on_moved that schedules nothing.
on_moved_ignored(is_directory, src_path, dest_path) == UNCHANGED hdl_vars
\* on_moved
on_moved(is_directory, src_path, dest_path) ==
    IF ~is_directory THEN schedule_file_processing(dest_path) ELSE UNCHANGED hdl_vars

\* The src_path of a file that is moved into WatchDir from elsewhere.
Outside == "outside"

\* A file appears at the top level of WatchDir: created, or renamed into place
\* ("moved", which may replace a file of that name).  on_created / on_moved run
\* when the directory is subscribed with a started observer.
FileEvent(kind, n, c) ==
    /\ kind = "created" => top[n] = NoFile
    /\ top' = [top EXCEPT ![n] = c]
    /\ IF Delivered
       THEN IF kind = "created" THEN on_created(FALSE, n) ELSE on_moved(FALSE, Outside, n)
       ELSE UNCHANGED hdl_vars
    /\ UNCHANGED <<svc_vars, org, folders, mv, ext_vars>>

\* A top-level file of WatchDir is renamed to another top-level name (which
\* it replaces if present): one moved event with both paths in WatchDir.
RenameEvent(src, dst) ==
    /\ src # dst /\ top[src] # NoFile
    /\ top' = [top EXCEPT ![dst] = top[src], ![src] = NoFile]
    /\ IF Delivered THEN on_moved(FALSE, src, dst) ELSE UNCHANGED hdl_vars
    /\ UNCHANGED <<svc_vars, org, folders, mv, ext_vars>>

\* A sub-directory named f appears in WatchDir, created or renamed into
\* place: an event with is_directory set.
DirEvent(kind, f) ==
    /\ f \notin folders
    /\ folders' = folders \cup {f}
    /\ IF Delivered
       THEN IF kind = "created" THEN on_created(TRUE, f) ELSE on_moved(TRUE, Outside, f)
       ELSE UNCHANGED hdl_vars
    /\ UNCHANGED <<svc_vars, top, org, mv, ext_vars>>

\* One time unit passes.
Tick ==
    /\ \/ \E t \in TimerIds : timers[t].state = "waiting" /\ timers[t].remaining > 0
       \/ \E n \in Names : quiet[n] < processing_delay
    /\ timers' = [t \in TimerIds |->
                    IF timers[t].state = "waiting" /\ timers[t].remaining > 0
                    THEN [timers[t] EXCEPT !.remaining = @ - 1] ELSE timers[t]]
    /\ quiet' = [n \in Names |->
                    IF quiet[n] < processing_delay THEN quiet[n] + 1 ELSE quiet[n]]
    /\ UNCHANGED <<svc_vars, pending_files, burst_fires, fs_vars, mv, ext_vars>>

\* Timer.run: the wait timed out and the finished flag is not set; the callback starts.
TimerExpire(t) ==
    /\ timers[t].state = "waiting" /\ timers[t].remaining = 0
    /\ timers' = [timers EXCEPT ![t].state = "running"]
    /\ burst_fires' = [burst_fires EXCEPT
                         ![timers[t].path] = IF @ < 2 THEN @ + 1 ELSE @]
    /\ UNCHANGED <<svc_vars, pending_files, quiet, fs_vars, mv, ext_vars>>

\* FileOrganizer.check_create_dir
check_create_dir(folder_name) == folders' = folders \cup {folder_name}

\* A move_data that copies the file and leaves the source in place.
move_data_copies(folder_name, file) ==
    IF top[file] # NoFile
    THEN /\ org' = [org EXCEPT ![<<folder_name, file>>] = top[file]]
         /\ UNCHANGED top
    ELSE UNCHANGED <<top, org>>

\* FileOrganizer.move_data: shutil.move(source, target) onto the full target
\* path; an existing target file is replaced.
move_data(folder_name, file) ==
    IF top[file] # NoFile
    THEN /\ org' = [org EXCEPT ![<<folder_name, file>>] = top[file]]
         /\ top' = [top EXCEPT ![file] = NoFile]
    ELSE UNCHANGED <<top, org>>

\* FileOrganizer.check_and_move
check_and_move(file, file_type) ==
    LET folder_name == get_folder_name(file_type, folder_config)
    IN  /\ check_create_dir(folder_name)
        /\ move_data(folder_name, file)

\* The try block of _process_file.
ProcessFile(t) ==
    /\ timers[t].state = "running"
    /\ timers' = [timers EXCEPT ![t].state = "finishing"]
    /\ LET n == timers[t].path
       IN  IF top[n] # NoFile /\ ~DetectorRaises(n, top[n])
           THEN check_and_move(n, magic_from_file(n, top[n]))
           ELSE UNCHANGED fs_vars
    /\ UNCHANGED <<svc_vars, pending_files, quiet, burst_fires, mv, ext_vars>>

\* A finally block that empties pending_files.
Cleanup_clears_all(t) ==
    /\ timers[t].state = "finishing"
    /\ pending_files' = <<>>
    /\ timers' = [timers EXCEPT ![t] = Free]
    /\ UNCHANGED <<svc_vars, quiet, burst_fires, fs_vars, mv, ext_vars>>

\* The finally block of _process_file, atomic under timer_lock.
Cleanup(t) ==
    /\ timers[t].state = "finishing"
    /\ pending_files' = DictDel(pending_files, timers[t].path)
    /\ timers' = [timers EXCEPT ![t] = Free]
    /\ UNCHANGED <<svc_vars, quiet, burst_fires, fs_vars, mv, ext_vars>>

\* ------------------------------ CrossPlatformFileOrganizer._move_file (CLI)
\* A file name is a sequence of characters.
SourceNames == { <<"r", ".", "p">>, <<"r">>, <<".", "p">>, <<"a", ".", "b", ".", "c">> }

Digit == <<"0", "1", "2", "3", "4", "5", "6", "7", "8", "9">>
RECURSIVE Dec(_)
\* str(counter) inside the f-string.
Dec(k) == IF k < 10 THEN <<Digit[k + 1]>> ELSE Dec(k \div 10) \o <<Digit[(k % 10) + 1]>>

\* name.rfind('.') counted from 1; 0 when there is no dot.
RFindDot(name) ==
    LET dots == {i \in DOMAIN name : name[i] = "."}
    IN  IF dots = {} THEN 0 ELSE CHOOSE i \in dots : \A j \in dots : j <= i

\* pathlib's PurePath.suffix and PurePath.stem: the last dot splits the name
\* unless it is the first or the last character.
Suffix(name) ==
    LET i == RFindDot(name)
    IN  IF 1 < i /\ i < Len(name) THEN SubSeq(name, i, Len(name)) ELSE <<>>
Stem(name) ==
    LET i == RFindDot(name)
    IN  IF 1 < i /\ i < Len(name) THEN SubSeq(name, 1, i - 1) ELSE name

\* f"{stem}_{counter}{suffix}"
Renamed(original, counter) == Stem(original) \o <<"_">> \o Dec(counter) \o Suffix(original)

\* The names a target directory may hold before the call.
Pool(source) == {source} \cup {Renamed(source, k) : k \in 1..MaxCollisions}

MvIdle == [pc |-> "idle", source |-> <<>>, src_exists |-> FALSE, dir0 |-> <<>>,
           dir |-> <<>>, target_path |-> <<>>, counter |-> 1, result |-> FALSE]

\* _move_file with the counter starting at 2.
move_file_call_from_two(source, src_exists, present) ==
    /\ mv.pc \in {"idle", "done"}
    /\ LET d == [x \in present |-> "old"]
       IN  mv' = [pc |-> "loop", source |-> source, src_exists |-> src_exists,
                  dir0 |-> d, dir |-> d, target_path |-> source, counter |-> 2,
                  result |-> FALSE]
    /\ UNCHANGED <<svc_vars, hdl_vars, fs_vars, ext_vars>>

\* _move_file is entered: target_path = target_dir / source.name, counter = 1.
move_file_call(source, src_exists, present) ==
    /\ mv.pc \in {"idle", "done"}
    /\ LET d == [x \in present |-> "old"]
       IN  mv' = [pc |-> "loop", source |-> source, src_exists |-> src_exists,
                  dir0 |-> d, dir |-> d, target_path |-> source, counter |-> 1,
                  result |-> FALSE]
    /\ UNCHANGED <<svc_vars, hdl_vars, fs_vars, ext_vars>>

\* One iteration of "while target_path.exists()".
move_file_loop ==
    /\ mv.pc = "loop"
    /\ mv.target_path \in DOMAIN mv.dir
    /\ mv' = [mv EXCEPT !.target_path = Renamed(mv.source, mv.counter),
                        !.counter = @ + 1]
    /\ UNCHANGED <<svc_vars, hdl_vars, fs_vars, ext_vars>>

\* The loop has ended: shutil.move(source, target_path), which raises when the
\* source is gone.
move_file_move ==
    /\ mv.pc = "loop"
    /\ mv.target_path \notin DOMAIN mv.dir
    /\ IF mv.src_exists
       THEN mv' = [mv EXCEPT !.dir = DictSet(mv.dir, mv.target_path, "new"),
                             !.result = TRUE, !.pc = "done"]
       ELSE mv' = [mv EXCEPT !.result = FALSE, !.pc = "done"]
    /\ UNCHANGED <<svc_vars, hdl_vars, fs_vars, ext_vars>>

MoveNext ==
    \/ \E src \in SourceNames, e \in BOOLEAN :
          \E present \in SUBSET Pool(src) : move_file_call(src, e, present)
    \/ move_file_loop
    \/ move_file_move

\* ------------------------------------------------- calls of get_folder_name
GfIdle(table) == [config |-> table, impl |-> "none", file_type |-> <<>>,
                  result |-> Returned("")]

GfCall(impl, file_type, result) ==
    /\ gf' = [gf EXCEPT !.impl = impl, !.file_type = file_type, !.result = result]
    /\ UNCHANGED <<svc_vars, hdl_vars, fs_vars, mv, thr, peer, scan, proc, cli, ef, cf,
                   jn>>

\* FileOrganizer.get_folder_name(file_type, config)
organizer_get_folder_name(file_type) ==
    GfCall("organizer", file_type, Returned(get_folder_name(file_type, gf.config)))
\* CrossPlatformFileOrganizer._get_folder_name(file_type)
cli_get_folder_name_call(file_type) ==
    GfCall("cli", file_type, Returned(cli_get_folder_name(file_type, gf.config)))
\* main.py: get_folder_name(file_type, config)
main_get_folder_name_call(file_type) ==
    GfCall("main", file_type, main_get_folder_name(file_type, gf.config))

FolderNameNext ==
    \/ \E ft \in TypeIds : organizer_get_folder_name(ft)
    \/ \E ft \in TypeIds : cli_get_folder_name_call(ft)
    \/ \E ft \in TypeIds : main_get_folder_name_call(ft)

\* ------------------------------------------- FileOrganizer.organize (scan)
\* The orders os.listdir can return the entries in.
Perms(S) ==
    {q \in [1..Cardinality(S) -> S] : \A i \in DOMAIN q : \A j \in DOMAIN q :
                                          q[i] = q[j] => i = j}

ScanIdle == [pc |-> "idle", files |-> <<>>, index |-> 0, file_type |-> <<>>,
             processed_count |-> 0, success_count |-> 0, summaries |-> 0,
             attempted |-> <<>>, res |-> FALSE, returned |-> FALSE, log |-> "none"]

\* The entry of the current iteration of "for index, file in enumerate(files)".
ScanFile == scan.files[scan.index + 1]

\* file_path.is_file() for an entry of WatchDir.
is_file(entry) == entry \in Names /\ top[entry] # NoFile

\* check_create_dir: "if not folder_path.exists()".
NeedsCreating(folder_name) == folder_name \notin folders

\* move_data's return value: shutil.move raises when the source is gone, and
\* when the environment refuses the rename.
move_data_res(file, move_raises) == top[file] # NoFile /\ ~move_raises

\* check_and_move's return value: False when an exception reached its except
\* clause, which only the mkdir of check_create_dir can raise; True otherwise.
check_and_move_res(folder_name, mkdir_raises) ==
    ~(mkdir_raises /\ NeedsCreating(folder_name))

\* check_and_move on the file system, with the failures of the environment:
\* a raising mkdir leaves everything as it is, a raising move leaves the file.
check_and_move_env(file, file_type, mkdir_raises, move_raises) ==
    LET folder_name == get_folder_name(file_type, folder_config)
    IN  IF mkdir_raises /\ NeedsCreating(folder_name) THEN UNCHANGED fs_vars
        ELSE IF move_raises
        THEN check_create_dir(folder_name) /\ UNCHANGED <<top, org>>
        ELSE check_and_move(file, file_type)

ScanFrame == UNCHANGED <<svc_vars, hdl_vars, mv, thr, peer, gf, proc, cli, ef, cf, jn>>

\* organize is called: os.listdir(path) and the counters; a listing that
\* cannot be made is caught by the outer except.
organize_listdir(listdir_raises) ==
    /\ scan.pc \in {"idle", "done"}
    /\ IF listdir_raises
       THEN scan' = [ScanIdle EXCEPT !.pc = "done", !.log = "error_accessing_directory"]
       ELSE \E files \in Perms({n \in Names : top[n] # NoFile} \cup folders) :
               scan' = [ScanIdle EXCEPT !.files = files, !.log = "found_items",
                                        !.pc = IF files = <<>> THEN "done" ELSE "item"]
    /\ UNCHANGED fs_vars
    /\ ScanFrame

\* An iteration that relocates a sub-directory instead of skipping it.
organize_is_file_or_dir ==
    /\ scan.pc = "item"
    /\ IF is_file(ScanFile)
       THEN /\ scan' = [scan EXCEPT !.pc = "detect", !.attempted = Append(@, ScanFile)]
            /\ UNCHANGED fs_vars
       ELSE /\ scan' = [scan EXCEPT !.pc = "summary"]
            /\ folders' = (folders \ {ScanFile}) \cup {folder_config.default}
            /\ UNCHANGED <<top, org>>
    /\ ScanFrame

\* "if file_path.is_file():" of one iteration.
organize_is_file ==
    /\ scan.pc = "item"
    /\ IF is_file(ScanFile)
       THEN scan' = [scan EXCEPT !.pc = "detect", !.attempted = Append(@, ScanFile)]
       ELSE scan' = [scan EXCEPT !.pc = "summary"]
    /\ UNCHANGED fs_vars
    /\ ScanFrame

\* A detection whose failure ends the scan.
organize_detect_aborts ==
    /\ scan.pc = "detect"
    /\ IF top[ScanFile] = NoFile \/ DetectorRaises(ScanFile, top[ScanFile])
       THEN scan' = [scan EXCEPT !.pc = "done", !.log = "could_not_determine"]
       ELSE scan' = [scan EXCEPT !.pc = "move", !.log = "detected",
                                 !.file_type = magic_from_file(ScanFile, top[ScanFile])]
    /\ UNCHANGED fs_vars
    /\ ScanFrame

\* "file_type = magic.from_file(...).lower()" inside the inner try; the except
\* clause logs and the iteration goes on to the summary lines.
organize_detect ==
    /\ scan.pc = "detect"
    /\ IF top[ScanFile] = NoFile \/ DetectorRaises(ScanFile, top[ScanFile])
       THEN scan' = [scan EXCEPT !.pc = "summary", !.log = "could_not_determine"]
       ELSE scan' = [scan EXCEPT !.pc = "move", !.log = "detected",
                                 !.file_type = magic_from_file(ScanFile, top[ScanFile])]
    /\ UNCHANGED fs_vars
    /\ ScanFrame

\* "if self.check_and_move(file, file_type, path): success_count += 1" and
\* "processed_count += 1".
organize_check_and_move(mkdir_raises, move_raises) ==
    /\ scan.pc = "move"
    /\ LET folder_name == get_folder_name(scan.file_type, folder_config)
           returned == check_and_move_res(folder_name, mkdir_raises)
           res == returned /\ move_data_res(ScanFile, move_raises)
       IN  scan' = [scan EXCEPT !.pc = "summary",
                                !.returned = returned,
                                !.res = res,
                                !.log = IF ~returned THEN "error_processing"
                                        ELSE IF res THEN "successfully_processed"
                                        ELSE "failed_to_move",
                                !.success_count = IF returned THEN @ + 1 ELSE @,
                                !.processed_count = @ + 1]
    /\ check_and_move_env(ScanFile, scan.file_type, mkdir_raises, move_raises)
    /\ ScanFrame

\* The summary lines, which are inside the loop body, and the step to the
\* next entry; after the last entry organize returns.
organize_summary ==
    /\ scan.pc = "summary"
    /\ scan' = [scan EXCEPT !.summaries = @ + 1,
                            !.index = @ + 1,
                            !.pc = IF scan.index + 1 = Len(scan.files) THEN "done"
                                   ELSE "item"]
    /\ UNCHANGED fs_vars
    /\ ScanFrame

\* The steps of organize; raising holds the answers to "does the environment
\* refuse this operation".
ScanNext(raising) ==
    \/ \E r \in raising : organize_listdir(r)
    \/ organize_is_file
    \/ organize_detect
    \/ \E k \in raising, m \in raising : organize_check_and_move(k, m)
    \/ organize_summary

\* ------------------------------------ _process_file, statement by statement
ProcIdle == [file_type |-> <<>>, outcome |-> "none"]

ProcFrame == UNCHANGED <<svc_vars, pending_files, quiet, burst_fires, mv, thr, peer,
                         gf, scan, cli, ef, cf, jn>>

\* "if file_path_obj.exists() and file_path_obj.is_file():"
process_file_exists(t) ==
    /\ timers[t].state = "running"
    /\ IF is_file(timers[t].path)
       THEN /\ timers' = [timers EXCEPT ![t].state = "checked"]
            /\ proc' = [proc EXCEPT ![t] = ProcIdle]
       ELSE /\ timers' = [timers EXCEPT ![t].state = "finishing"]
            /\ proc' = [proc EXCEPT ![t] = [ProcIdle EXCEPT !.outcome = "no_longer_exists"]]
    /\ UNCHANGED fs_vars
    /\ ProcFrame

\* "file_type = magic.from_file(...).lower()"; an exception goes to the except
\* clause of _process_file.
process_file_detect(t) ==
    /\ timers[t].state = "checked"
    /\ LET n == timers[t].path
       IN  IF top[n] = NoFile \/ DetectorRaises(n, top[n])
           THEN /\ timers' = [timers EXCEPT ![t].state = "finishing"]
                /\ proc' = [proc EXCEPT ![t].outcome = "error_processing"]
           ELSE /\ timers' = [timers EXCEPT ![t].state = "detected"]
                /\ proc' = [proc EXCEPT ![t].file_type = magic_from_file(n, top[n])]
    /\ UNCHANGED fs_vars
    /\ ProcFrame

\* "self.organizer.check_and_move(file_name, file_type, parent_dir)", whose
\* return value is dropped; the outcome is what move_data logs.
process_file_move(t) ==
    /\ timers[t].state = "detected"
    /\ timers' = [timers EXCEPT ![t].state = "finishing"]
    /\ proc' = [proc EXCEPT ![t].outcome = IF move_data_res(timers[t].path, FALSE)
                                           THEN "moved" ELSE "move_failed"]
    /\ check_and_move(timers[t].path, proc[t].file_type)
    /\ ProcFrame

ProcessNext ==
    \/ \E t \in TimerIds : process_file_exists(t)
    \/ \E t \in TimerIds : process_file_detect(t)
    \/ \E t \in TimerIds : process_file_move(t)

\* --------------------- CrossPlatformFileOrganizer.organize_directory (CLI)
\* The entries of the directory the command is run on, and what each can be.
CliNames == { <<"r", ".", "p">>, <<"r">> }
CliKinds == {"absent", "file", "unreadable", "dir"}

\* default_config of _load_config, in the order of the source (shortened).
cli_default_config ==
    [file_type |-> << [key |-> <<"image/">>, folder |-> "Images"],
                      [key |-> <<"text/", "plain">>, folder |-> "Text_Files"],
                      [key |-> <<"application/", "pdf">>, folder |-> "PDFs"],
                      [key |-> <<"application/", "octet-stream">>, folder |-> "Binary_Files"] >>,
     default |-> "Other_Files"]
CliFolders == {cli_default_config.file_type[i].folder :
                  i \in DOMAIN cli_default_config.file_type}
                \cup {cli_default_config.default}

\* magic.from_file(path, mime=True) in the command-line organizer.
cli_magic_from_file(name) ==
    IF Suffix(name) = <<".", "p">> THEN <<"application/", "pdf">> ELSE <<"text/", "plain">>

\* A _get_file_type that lets the detector's exception through.
cli_get_file_type_raising(name, kind) ==
    IF kind = "unreadable" THEN [raised |-> "Exception", value |-> <<>>]
    ELSE Returned(cli_magic_from_file(name))
\* _get_file_type: the detector's exception is caught and the generic type
\* returned.
cli_get_file_type(name, kind) ==
    IF kind = "unreadable" THEN Returned(<<"application/", "octet-stream">>)
    ELSE Returned(cli_magic_from_file(name))

RECURSIVE move_file_target(_, _, _, _)
\* _move_file's "while target_path.exists()" loop.
move_file_target(original, target_path, counter, present) ==
    IF target_path \in present
    THEN move_file_target(original, Renamed(original, counter), counter + 1, present)
    ELSE target_path

CliStats0 == [processed |-> 0, moved |-> 0, errors |-> 0, skipped |-> 0]
CliIdle(d, dst) ==
    [pc |-> "idle", dry_run |-> FALSE, dir |-> d, made |-> {x[1] : x \in dst}, dest |-> dst,
     files |-> <<>>, index |-> 0, stats |-> CliStats0, summaries |-> 0,
     attempted |-> <<>>, log |-> "none"]

CliEmpty == CliIdle([n \in CliNames |-> "absent"], {})

CliFrame == UNCHANGED <<svc_vars, hdl_vars, fs_vars, mv, thr, peer, gf, scan, proc, ef,
                        cf, jn>>

\* The directory the command is run on, before the run: its entries, and a
\* file that is already in a type folder under the name of an entry.
cli_directory(d, dst) ==
    /\ cli = CliEmpty
    /\ cli' = CliIdle(d, dst)
    /\ CliFrame

\* organize_directory up to the loop: _validate_directory, the listing of the
\* regular files, and the return for an empty listing.
organize_directory_call(dry_run, valid) ==
    /\ cli.pc = "idle"
    /\ IF ~valid
       THEN cli' = [cli EXCEPT !.pc = "done", !.dry_run = dry_run, !.log = "invalid_directory"]
       ELSE \E files \in Perms({n \in CliNames : cli.dir[n] \in {"file", "unreadable"}}) :
               cli' = [cli EXCEPT !.dry_run = dry_run, !.files = files,
                                  !.pc = IF files = <<>> THEN "done" ELSE "loop",
                                  !.log = IF files = <<>> THEN "no_files_found"
                                          ELSE "found_files"]
    /\ CliFrame

\* A loop body that creates the folder and moves the file in a dry run too.
organize_directory_item_ignores_dry_run(mkdir_raises, move_raises) ==
    /\ cli.pc = "loop"
    /\ LET file_path == cli.files[cli.index + 1]
           got == cli_get_file_type(file_path, cli.dir[file_path])
           folder_name == cli_get_folder_name(got.value, cli_default_config)
           present == {x[2] : x \in {y \in cli.dest : y[1] = folder_name}}
           target_path == move_file_target(file_path, file_path, 1, present)
           next == [cli EXCEPT !.index = @ + 1,
                               !.attempted = Append(@, file_path),
                               !.pc = IF cli.index + 1 = Len(cli.files) THEN "summary"
                                      ELSE "loop"]
       IN  IF mkdir_raises /\ folder_name \notin cli.made
           THEN cli' = [next EXCEPT !.stats.errors = @ + 1, !.log = "error_processing"]
           ELSE IF move_raises
           THEN cli' = [next EXCEPT !.made = @ \cup {folder_name},
                                    !.stats.errors = @ + 1,
                                    !.stats.processed = @ + 1,
                                    !.log = "move_failed"]
           ELSE cli' = [next EXCEPT !.made = @ \cup {folder_name},
                                    !.dest = @ \cup {<<folder_name, target_path>>},
                                    !.dir[file_path] = "absent",
                                    !.stats.moved = @ + 1,
                                    !.stats.processed = @ + 1,
                                    !.log = "moved"]
    /\ CliFrame

\* A loop body that does not count a failed move as an error.
organize_directory_item_drops_move_error(mkdir_raises, move_raises) ==
    /\ cli.pc = "loop"
    /\ LET file_path == cli.files[cli.index + 1]
           got == cli_get_file_type(file_path, cli.dir[file_path])
           folder_name == cli_get_folder_name(got.value, cli_default_config)
           present == {x[2] : x \in {y \in cli.dest : y[1] = folder_name}}
           target_path == move_file_target(file_path, file_path, 1, present)
           next == [cli EXCEPT !.index = @ + 1,
                               !.attempted = Append(@, file_path),
                               !.pc = IF cli.index + 1 = Len(cli.files) THEN "summary"
                                      ELSE "loop"]
       IN  IF cli.dry_run
           THEN cli' = [next EXCEPT !.stats.processed = @ + 1, !.log = "would_move"]
           ELSE IF mkdir_raises /\ folder_name \notin cli.made
           THEN cli' = [next EXCEPT !.stats.errors = @ + 1, !.log = "error_processing"]
           ELSE IF move_raises
           THEN cli' = [next EXCEPT !.made = @ \cup {folder_name},
                                    !.stats.processed = @ + 1,
                                    !.log = "move_failed"]
           ELSE cli' = [next EXCEPT !.made = @ \cup {folder_name},
                                    !.dest = @ \cup {<<folder_name, target_path>>},
                                    !.dir[file_path] = "absent",
                                    !.stats.moved = @ + 1,
                                    !.stats.processed = @ + 1,
                                    !.log = "moved"]
    /\ CliFrame

\* One iteration of the loop over the files.
organize_directory_item(mkdir_raises, move_raises) ==
    /\ cli.pc = "loop"
    /\ LET file_path == cli.files[cli.index + 1]
           got == cli_get_file_type(file_path, cli.dir[file_path])
           folder_name == cli_get_folder_name(got.value, cli_default_config)
           present == {x[2] : x \in {y \in cli.dest : y[1] = folder_name}}
           target_path == move_file_target(file_path, file_path, 1, present)
           next == [cli EXCEPT !.index = @ + 1,
                               !.attempted = Append(@, file_path),
                               !.pc = IF cli.index + 1 = Len(cli.files) THEN "summary"
                                      ELSE "loop"]
       IN  IF got.raised # "none"
           THEN cli' = [next EXCEPT !.stats.errors = @ + 1, !.log = "error_processing"]
           ELSE IF cli.dry_run
           THEN cli' = [next EXCEPT !.stats.processed = @ + 1, !.log = "would_move"]
           ELSE IF mkdir_raises /\ folder_name \notin cli.made
           THEN cli' = [next EXCEPT !.stats.errors = @ + 1, !.log = "error_processing"]
           ELSE IF move_raises
           THEN cli' = [next EXCEPT !.made = @ \cup {folder_name},
                                    !.stats.errors = @ + 1,
                                    !.stats.processed = @ + 1,
                                    !.log = "move_failed"]
           ELSE cli' = [next EXCEPT !.made = @ \cup {folder_name},
                                    !.dest = @ \cup {<<folder_name, target_path>>},
                                    !.dir[file_path] = "absent",
                                    !.stats.moved = @ + 1,
                                    !.stats.processed = @ + 1,
                                    !.log = "moved"]
    /\ CliFrame

\* "self._print_summary(dry_run)" after the loop.
organize_directory_summary ==
    /\ cli.pc = "summary"
    /\ cli' = [cli EXCEPT !.summaries = @ + 1, !.pc = "done"]
    /\ CliFrame

CliNext ==
    \/ \E d \in [CliNames -> CliKinds] \ {CliEmpty.dir},
          dst \in {{}, {<<"PDFs", <<"r", ".", "p">>>>}} : cli_directory(d, dst)
    \/ \E d \in BOOLEAN, v \in BOOLEAN : organize_directory_call(d, v)
    \/ \E k \in BOOLEAN, m \in BOOLEAN : organize_directory_item(k, m)
    \/ organize_directory_summary

\* ----------------------------------------------- ensuring a folder exists
\* What base/name can be before a call.
EfNames == {"PDFs", "Images"}
PathKinds == {"absent", "dir", "file"}
NoCall == [impl |-> "none", name |-> "", raised |-> FALSE]
EfIdle(d) == [dir |-> d, prev |-> NoCall, last |-> NoCall]
EfEmpty == EfIdle([n \in EfNames |-> "absent"])

EfCall(impl, name, raised, dir) ==
    /\ ef' = [dir |-> dir, prev |-> ef.last,
              last |-> [impl |-> impl, name |-> name, raised |-> raised]]
    /\ UNCHANGED <<svc_vars, hdl_vars, fs_vars, mv, thr, peer, gf, scan, proc, cli, cf,
                   jn>>

\* FileOrganizer.check_create_dir(path, folder_name): mkdir only when
\* folder_path.exists() is false; exists() is true for a regular file too.
check_create_dir_call(name, mkdir_raises) ==
    IF ef.dir[name] = "absent"
    THEN IF mkdir_raises THEN EfCall("organizer", name, TRUE, ef.dir)
         ELSE EfCall("organizer", name, FALSE, [ef.dir EXCEPT ![name] = "dir"])
    ELSE EfCall("organizer", name, FALSE, ef.dir)

\* CrossPlatformFileOrganizer._create_directory: mkdir(exist_ok=True), which
\* raises FileExistsError when the path exists and is not a directory; the
\* except clause re-raises.
cli_create_directory(name, mkdir_raises) ==
    IF ef.dir[name] = "dir" THEN EfCall("cli", name, FALSE, ef.dir)
    ELSE IF ef.dir[name] = "file" THEN EfCall("cli", name, TRUE, ef.dir)
    ELSE IF mkdir_raises THEN EfCall("cli", name, TRUE, ef.dir)
    ELSE EfCall("cli", name, FALSE, [ef.dir EXCEPT ![name] = "dir"])

EnsureNext ==
    \/ \E n \in EfNames, k \in BOOLEAN : check_create_dir_call(n, k)
    \/ \E n \in EfNames, k \in BOOLEAN : cli_create_directory(n, k)

\* ------------------------------ watcher_config.json, statement by statement
\* The file is absent, is not parsable as JSON, or holds a config record.
CfMissing == [kind |-> "missing", data |-> DefaultConfig]
CfCorrupt == [kind |-> "corrupt", data |-> DefaultConfig]
CfJson(c) == [kind |-> "json", data |-> c]

\* The callers of the load-modify-save operations: the threads or service
\* instances of the process that share the file.
CfCallers == {"tray", "window"}
CfCallIdle == [pc |-> "idle", op |-> "none", d |-> "", enabled |-> FALSE,
               config |-> DefaultConfig, saw |-> "none"]
\* added and flag remember the updates whose save_config has returned True
\* since the file was last lost; overlapped, that two calls were in flight at
\* the same time.
CfIdle == [file |-> CfMissing, call |-> [i \in CfCallers |-> CfCallIdle],
           added |-> {}, flag |-> "unset", overlapped |-> FALSE]

CfFrame == UNCHANGED <<svc_vars, hdl_vars, fs_vars, mv, thr, peer, gf, scan, proc, cli, ef,
                       jn>>

\* load_config: the parsed file, or the default record when the file does not
\* exist or json.load raises.
load_config(file) == IF file.kind = "json" THEN file.data ELSE DefaultConfig

\* A load_config that writes the default record when it finds no usable file.
config_load_creates_file(i, op, d, enabled) ==
    /\ cf.call[i].pc = "idle"
    /\ cf' = [cf EXCEPT
                !.file = IF cf.file.kind = "json" THEN @ ELSE CfJson(DefaultConfig),
                !.call[i] = [pc |-> "loaded", op |-> op, d |-> d, enabled |-> enabled,
                             config |-> load_config(cf.file), saw |-> cf.file.kind],
                !.overlapped = @ \/ \E j \in CfCallers \ {i} : cf.call[j].pc # "idle"]
    /\ CfFrame

\* "config = self.load_config()" at the head of get_watched_directories,
\* add_watched_directory(d) (d a directory that exists) and
\* set_watcher_enabled(enabled).
config_load(i, op, d, enabled) ==
    /\ cf.call[i].pc = "idle"
    /\ cf' = [cf EXCEPT
                !.call[i] = [pc |-> "loaded", op |-> op, d |-> d, enabled |-> enabled,
                             config |-> load_config(cf.file), saw |-> cf.file.kind],
                !.overlapped = @ \/ \E j \in CfCallers \ {i} : cf.call[j].pc # "idle"]
    /\ CfFrame

\* The statements between load_config and save_config: the membership test
\* and the append of add_watched_directory, the assignment of
\* set_watcher_enabled; get_watched_directories returns the list.
config_modify(i) ==
    /\ cf.call[i].pc = "loaded"
    /\ LET c == cf.call[i]
       IN  IF c.op = "add_watched_directory" /\ ~InList(c.d, c.config.watched_directories)
           THEN cf' = [cf EXCEPT !.call[i].pc = "open",
                                 !.call[i].config.watched_directories = Append(@, c.d)]
           ELSE IF c.op = "set_watcher_enabled"
           THEN cf' = [cf EXCEPT !.call[i].pc = "open",
                                 !.call[i].config.watcher_enabled = c.enabled]
           ELSE cf' = [cf EXCEPT !.call[i] = CfCallIdle]
    /\ CfFrame

\* save_config, "with open(self.config_path, 'w') as f": the file is created
\* or truncated; when it cannot be opened the exception is logged and the
\* caller goes on as if the file had been written.
config_open(i, saved) ==
    /\ cf.call[i].pc = "open"
    /\ IF saved
       THEN cf' = [cf EXCEPT !.file = CfCorrupt, !.call[i].pc = "dump"]
       ELSE cf' = [cf EXCEPT !.call[i] = CfCallIdle]
    /\ CfFrame

\* The length of the text json.dump writes for a record, for directory paths
\* of one length: an entry per directory, and "false" is a character longer
\* than "true".
JsonSize(c) == 10 * Len(c.watched_directories) + (IF c.watcher_enabled THEN 4 ELSE 5)

\* save_config, "json.dump(config, f, indent=2)" and the close.  When another
\* caller has written the file since this one truncated it, the bytes of the
\* two writes overlay each other from offset 0: the file holds this caller's
\* record, followed by the rest of the other one when that is longer (torn).
config_dump(i, torn) ==
    /\ cf.call[i].pc = "dump"
    /\ torn <=> (cf.file.kind = "json" /\ JsonSize(cf.file.data) > JsonSize(cf.call[i].config))
    /\ LET c == cf.call[i]
       IN  cf' = [cf EXCEPT
                    !.file = IF torn THEN CfCorrupt ELSE CfJson(c.config),
                    !.call[i] = CfCallIdle,
                    !.added = IF c.op = "add_watched_directory" THEN @ \cup {c.d} ELSE @,
                    !.flag = IF c.op # "set_watcher_enabled" THEN @
                             ELSE IF c.enabled THEN "true" ELSE "false"]
    /\ CfFrame

\* The file is deleted or overwritten with something else from outside, while
\* no caller has it open.
config_file_lost(kind) ==
    /\ \A i \in CfCallers : cf.call[i].pc # "dump"
    /\ cf.file.kind \notin {kind, "missing"}
    /\ cf' = [cf EXCEPT !.file = IF kind = "missing" THEN CfMissing ELSE CfCorrupt,
                        !.added = {}, !.flag = "unset"]
    /\ CfFrame

ConfigFileNext ==
    \/ \E i \in CfCallers : config_load(i, "get_watched_directories", "", FALSE)
    \/ \E i \in CfCallers, d \in Dirs : config_load(i, "add_watched_directory", d, FALSE)
    \/ \E i \in CfCallers, b \in BOOLEAN : config_load(i, "set_watcher_enabled", "", b)
    \/ \E i \in CfCallers : config_modify(i)
    \/ \E i \in CfCallers, saved \in BOOLEAN : config_open(i, saved)
    \/ \E i \in CfCallers, torn \in BOOLEAN : config_dump(i, torn)
    \/ \E kind \in {"missing", "corrupt"} : config_file_lost(kind)

\* --------------------------------- stop_watching and the observer's thread
\* jn.alive: the thread of the observer that was told to stop is still
\* running; jn.waited: the time units the caller has spent in join.
JnIdle == [alive |-> FALSE, waited |-> 0]
\* observer.join(timeout=5)
join_timeout == 5

\* "if self.observer: self.observer.stop()": the observer's thread is told to
\* leave its loop.
stop_watching_stop(i) ==
    /\ thr[i].op = "stop_watching" /\ thr[i].pc = "halt"
    /\ IF observer = "None"
       THEN Goto(i, "stop_watching", "clear") /\ UNCHANGED jn
       ELSE /\ Goto(i, "stop_watching", "join")
            /\ jn' = [alive |-> observer = "started", waited |-> 0]
    /\ UNCHANGED <<svc_vars, hdl_vars, fs_vars, mv, peer, gf, scan, proc, cli, ef, cf>>

\* A time unit passes while a caller waits in join.
join_elapses ==
    /\ \E i \in Threads : thr[i].pc = "join"
    /\ jn.alive /\ jn.waited < join_timeout
    /\ jn' = [jn EXCEPT !.waited = @ + 1]
    /\ UNCHANGED <<svc_vars, hdl_vars, fs_vars, mv, thr, peer, gf, scan, proc, cli, ef, cf>>

\* The observer's thread ends: it has returned from the handler call it was
\* in and found its stop event set.
observer_thread_ends ==
    /\ jn.alive
    /\ jn' = [jn EXCEPT !.alive = FALSE]
    /\ UNCHANGED <<svc_vars, hdl_vars, fs_vars, mv, thr, peer, gf, scan, proc, cli, ef, cf>>

\* A join without a timeout: it returns when the thread has ended.
stop_watching_join_forever(i) ==
    /\ thr[i].op = "stop_watching" /\ thr[i].pc = "join"
    /\ IF observer = "unstarted"
       THEN /\ Return(i, "stop_watching", FALSE, "stop_failed")
            /\ UNCHANGED <<observer, obs_watches>>
       ELSE /\ ~jn.alive
            /\ observer' = "None"
            /\ obs_watches' = {}
            /\ Goto(i, "stop_watching", "clear")
            /\ UNCHANGED ret
    /\ UNCHANGED <<config, fs_dirs, is_running, watched_paths, leaked,
                   hdl_vars, fs_vars, mv, peer, org_vars>>

\* "self.observer.join(timeout=5)" returns, when the thread has ended or the
\* timeout has passed, and "self.observer = None".  join raises on a thread
\* that was never started.
stop_watching_join(i) ==
    /\ thr[i].op = "stop_watching" /\ thr[i].pc = "join"
    /\ IF observer = "unstarted"
       THEN /\ Return(i, "stop_watching", FALSE, "stop_failed")
            /\ UNCHANGED <<observer, obs_watches>>
       ELSE /\ ~jn.alive \/ jn.waited = join_timeout
            /\ observer' = "None"
            /\ obs_watches' = {}
            /\ Goto(i, "stop_watching", "clear")
            /\ UNCHANGED ret
    /\ UNCHANGED <<config, fs_dirs, is_running, watched_paths, leaked,
                   hdl_vars, fs_vars, mv, peer, org_vars>>

\* One stop_watching call with its wait for the observer's thread.
StopCallNext(i) ==
    \/ stop_watching_enter(i)
    \/ stop_watching_stop(i)
    \/ join_elapses
    \/ observer_thread_ends
    \/ stop_watching_join(i)
    \/ stop_watching_clear(i)
    \/ stop_watching_flag(i)


\* ------------------------------------------------------------ specification
\* The state after construction of the watcher, the handler and the mover.
InitProgram ==
    /\ config = DefaultConfig
    /\ fs_dirs = Dirs
    /\ is_running = FALSE
    /\ observer = "None"
    /\ obs_watches = {}
    /\ watched_paths = {}
    /\ ret = Ret("init", TRUE, "constructed")
    /\ leaked = {}
    /\ thr = [i \in Threads |-> ThrIdle]
    /\ peer = PeerIdle
    /\ timers = [t \in TimerIds |-> Free]
    /\ pending_files = <<>>
    /\ top = [n \in Names |-> NoFile]
    /\ org = [k \in Folders \X Names |-> NoFile]
    /\ folders = {}
    /\ quiet = [n \in Names |-> processing_delay]
    /\ burst_fires = [n \in Names |-> 0]
    /\ mv = MvIdle

\* The mapping table, the command's directory and the directory of the ensured
\* folders are what the environment provides.
InitWith(table, c, e) ==
    /\ InitProgram
    /\ gf = GfIdle(table)
    /\ scan = ScanIdle
    /\ proc = [t \in TimerIds |-> ProcIdle]
    /\ cli = c
    /\ ef = e
    /\ cf = CfIdle
    /\ jn = JnIdle

Init == InitWith(folder_config, CliEmpty, EfEmpty)

ServiceNext ==
    \/ \E r \in BOOLEAN : start_watching(r)
    \/ stop_watching
    \/ \E b \in BOOLEAN, s \in BOOLEAN, r \in BOOLEAN : set_watcher_enabled(b, s, r)
    \/ \E p \in PathArgs, s \in BOOLEAN, r \in BOOLEAN : add_watched_directory(p, s, r)
    \/ \E p \in PathArgs, s \in BOOLEAN : remove_watched_directory(p, s)
    \/ \E d \in Dirs : RemoveDir(d)

HandlerNext(names, contents) ==
    \/ \E k \in {"created", "moved"}, n \in names, c \in contents : FileEvent(k, n, c)
    \/ Tick
    \/ \E t \in TimerIds : TimerExpire(t)
    \/ \E t \in TimerIds : ProcessFile(t)
    \/ \E t \in TimerIds : Cleanup(t)

\* Renames inside WatchDir and events of sub-directories.
EventNext(dirs) ==
    \/ \E src \in Names, dst \in Names : RenameEvent(src, dst)
    \/ \E k \in {"created", "moved"}, f \in dirs : DirEvent(k, f)

Next ==
    \/ ServiceNext
    \/ ThreadNext(BOOLEAN)
    \/ PeerNext
    \/ HandlerNext(Names, Contents)
    \/ EventNext(Folders)
    \/ MoveNext
    \/ FolderNameNext
    \/ ScanNext(BOOLEAN)
    \/ ProcessNext
    \/ CliNext
    \/ EnsureNext
    \/ ConfigFileNext
    \/ \E i \in Threads : StopCallNext(i)

\* The whole program.
Spec == Init /\ [][Next]_vars

\* The lifecycle calls of one FileWatcherService, with every input.
SpecService == Init /\ [][ServiceNext]_vars

\* The watcher on WatchDir: the calls that bring it to Running and back, and
\* the events, timers and callbacks of one path.
WatcherNext ==
    \/ add_watched_directory(<<WatchDir>>, TRUE, FALSE)
    \/ \E b \in BOOLEAN : set_watcher_enabled(b, TRUE, FALSE)
    \/ stop_watching
    \/ HandlerNext({"report.pdf"}, Contents)

SpecWatcher == Init /\ [][WatcherNext]_vars

\* Time passes and every timer thread and callback is eventually scheduled.
WatcherFairness ==
    /\ WF_vars(Tick)
    /\ \A t \in TimerIds :
          WF_vars(TimerExpire(t)) /\ WF_vars(ProcessFile(t)) /\ WF_vars(Cleanup(t))

FairSpecWatcher == SpecWatcher /\ WatcherFairness

\* Calls of _move_file.
SpecMove == Init /\ [][MoveNext]_vars

\* start_watching and stop_watching called from two threads, statement by
\* statement, next to whole calls that configure and toggle the watcher; no
\* call fails for a reason of the environment.
ConcurrentNext ==
    \/ ThreadNext({FALSE})
    \/ add_watched_directory(<<WatchDir>>, TRUE, FALSE)
    \/ \E b \in BOOLEAN : set_watcher_enabled(b, TRUE, FALSE)

SpecConcurrent == Init /\ [][ConcurrentNext]_vars

\* The same calls made one at a time.
SerialNext ==
    \/ start_watching(FALSE)
    \/ stop_watching
    \/ add_watched_directory(<<WatchDir>>, TRUE, FALSE)
    \/ \E b \in BOOLEAN : set_watcher_enabled(b, TRUE, FALSE)

SpecSerial == Init /\ [][SerialNext]_vars

\* The watcher is brought to Running on WatchDir.
BringUp ==
    \/ add_watched_directory(<<WatchDir>>, TRUE, FALSE)
    \/ set_watcher_enabled(TRUE, TRUE, FALSE)

\* The event callbacks: every kind of event for files and sub-directories of
\* WatchDir, while time passes for the timers they start.
CallbacksNext ==
    \/ BringUp
    \/ \E k \in {"created", "moved"}, n \in Names, c \in Contents : FileEvent(k, n, c)
    \/ EventNext(Folders)
    \/ Tick

SpecCallbacks == Init /\ [][CallbacksNext]_vars

\* The timers of two paths: files of both names are created, their timers
\* run down and fire, and the callbacks organize them.
PathsNext ==
    \/ BringUp
    \/ \E n \in Names : FileEvent("created", n, "c1")
    \/ Tick
    \/ \E t \in TimerIds : TimerExpire(t)
    \/ \E t \in TimerIds : ProcessFile(t)
    \/ \E t \in TimerIds : Cleanup(t)

SpecPaths == Init /\ [][PathsNext]_vars

\* The two FileWatcherService instances of one process.
SpecTwoServices == Init /\ [][ServiceNext \/ PeerNext]_vars

\* get_folder_name applied to every identifier, for every mapping table.
SpecFolderName ==
    /\ \E table \in Tables : InitWith(table, CliEmpty, EfEmpty)
    /\ [][FolderNameNext]_vars

\* The folder-ensuring operations, from every state of the two paths.
SpecEnsure ==
    /\ \E d \in [EfNames -> PathKinds] : InitWith(folder_config, CliEmpty, EfIdle(d))
    /\ [][EnsureNext]_vars

\* A file appears inside a type folder of WatchDir.  The directory is
\* scheduled with recursive=False, so no event of it reaches the handler.
NestedFileEvent(f, n, c) ==
    /\ f \in folders /\ org[<<f, n>>] = NoFile
    /\ org' = [org EXCEPT ![<<f, n>>] = c]
    /\ UNCHANGED <<svc_vars, hdl_vars, top, folders, mv, ext_vars>>

\* The name of a sub-directory that is no type folder.
SubDir == "sub"

\* Manual scans of WatchDir while files appear in it; the watcher is not
\* running.  The type folders of one scan are sub-directories for the next.
OrganizeNext ==
    \/ \E n \in Names, c \in {"c1", "unreadable"} : FileEvent("created", n, c)
    \/ ScanNext(BOOLEAN)

SpecOrganize == Init /\ [][OrganizeNext]_vars

\* The command-line organizer is a process of its own, run on a directory of
\* its own: a behaviour is a run of the command or the activity in WatchDir.
WatchDirUntouched ==
    /\ scan = ScanIdle
    /\ top = [n \in Names |-> NoFile]
    /\ folders = {}

ScansNext ==
    \/ \E n \in Names, c \in {"c1", "unreadable"} :
          cli = CliEmpty /\ FileEvent("created", n, c)
    \/ \E r \in BOOLEAN : cli = CliEmpty /\ organize_listdir(r)
    \/ cli = CliEmpty /\ organize_is_file
    \/ cli = CliEmpty /\ organize_detect
    \/ \E k \in BOOLEAN, m \in BOOLEAN : cli = CliEmpty /\ organize_check_and_move(k, m)
    \/ cli = CliEmpty /\ organize_summary
    \/ \E d \in [CliNames -> CliKinds] \ {CliEmpty.dir},
          dst \in {{}, {<<"PDFs", <<"r", ".", "p">>>>}} :
          WatchDirUntouched /\ cli_directory(d, dst)
    \/ \E d \in BOOLEAN, v \in BOOLEAN : WatchDirUntouched /\ organize_directory_call(d, v)
    \/ \E k \in BOOLEAN, m \in BOOLEAN : WatchDirUntouched /\ organize_directory_item(k, m)
    \/ WatchDirUntouched /\ organize_directory_summary

SpecScans == Init /\ [][ScansNext]_vars

\* The three ways a directory is organized, each in a behaviour of its own.
\* By the watcher: files appear at the top level and inside a type folder,
\* sub-directories appear, timers fire and the callbacks organize.
Watched == cli = CliEmpty /\ scan = ScanIdle
\* By manual scans, the watcher never configured.
Manual == cli = CliEmpty /\ config = DefaultConfig
\* By a run of the command.
Command == WatchDirUntouched /\ config = DefaultConfig

TopLevelNext ==
    \/ Watched /\ add_watched_directory(<<WatchDir>>, TRUE, FALSE)
    \/ Watched /\ set_watcher_enabled(TRUE, TRUE, FALSE)
    \/ Watched /\ FileEvent("created", "report.pdf", "c1")
    \/ Watched /\ DirEvent("created", SubDir)
    \/ Watched /\ NestedFileEvent("PDFs", "a.png", "c2")
    \/ Watched /\ Tick
    \/ \E t \in TimerIds : Watched /\ TimerExpire(t)
    \/ \E t \in TimerIds : Watched /\ ProcessFile(t)
    \/ \E t \in TimerIds : Watched /\ Cleanup(t)
    \/ Manual /\ FileEvent("created", "report.pdf", "c1")
    \/ Manual /\ DirEvent("created", SubDir)
    \/ Manual /\ NestedFileEvent("PDFs", "a.png", "c2")
    \/ Manual /\ organize_listdir(FALSE)
    \/ Manual /\ organize_is_file
    \/ Manual /\ organize_detect
    \/ Manual /\ organize_check_and_move(FALSE, FALSE)
    \/ Manual /\ organize_summary
    \/ \E d \in [CliNames -> CliKinds] \ {CliEmpty.dir},
          dst \in {{}, {<<"PDFs", <<"r", ".", "p">>>>}} : Command /\ cli_directory(d, dst)
    \/ \E d \in BOOLEAN, v \in BOOLEAN : Command /\ organize_directory_call(d, v)
    \/ \E k \in BOOLEAN, m \in BOOLEAN : Command /\ organize_directory_item(k, m)
    \/ Command /\ organize_directory_summary

SpecTopLevel == Init /\ [][TopLevelNext]_vars

\* A manual scan of WatchDir while the watcher runs on it: each file appears
\* once, its timer fires, and the callback and the scan take their steps in
\* any order.  The environment refuses nothing.
RaceNext ==
    \/ BringUp
    \/ \E n \in {"report.pdf"} :
          /\ \A f \in Folders : org[<<f, n>>] = NoFile
          /\ FileEvent("created", n, "c1")
    \/ Tick
    \/ \E t \in TimerIds : TimerExpire(t)
    \/ ProcessNext
    \/ \E t \in TimerIds : Cleanup(t)
    \/ ScanNext({FALSE})

SpecRace == Init /\ [][RaceNext]_vars

\* The service is configured and started by whole calls; a thread calls
\* stop_watching, which runs statement by statement while time passes and
\* the observer's thread ends or does not.
StopNext ==
    \/ \E p \in PathArgs : thr[1].pc = "idle" /\ add_watched_directory(p, TRUE, FALSE)
    \/ \E b \in BOOLEAN : thr[1].pc = "idle" /\ set_watcher_enabled(b, TRUE, FALSE)
    \/ \E r \in BOOLEAN : thr[1].pc = "idle" /\ start_watching(r)
    \/ stop_watching_enter(1)
    \/ stop_watching_stop(1)
    \/ join_elapses
    \/ observer_thread_ends
    \/ stop_watching_join(1)
    \/ stop_watching_clear(1)
    \/ stop_watching_flag(1)

SpecStop == Init /\ [][StopNext]_vars

\* Time passes, and the thread that is in stop_watching keeps running: each of
\* its statements is eventually executed.  Nothing makes the observer's
\* thread end.
StopFairness ==
    /\ WF_vars(join_elapses)
    /\ WF_vars(stop_watching_stop(1))
    /\ WF_vars(stop_watching_join(1))
    /\ WF_vars(stop_watching_clear(1))
    /\ WF_vars(stop_watching_flag(1))

FairSpecStop == SpecStop /\ StopFairness

\* The calls that load, change and save watcher_config.json, from two callers.
SpecConfigFile == Init /\ [][ConfigFileNext]_vars

\* The watcher on WatchDir while the directory is taken off the watch list:
\* a file appears, its timer runs down and fires, and the directory is
\* removed (and may be added again) at any point in between.
RemoveNext ==
    \/ BringUp
    \/ remove_watched_directory(<<WatchDir>>, TRUE)
    \/ FileEvent("created", "report.pdf", "c1")
    \/ Tick
    \/ \E t \in TimerIds : TimerExpire(t)
    \/ \E t \in TimerIds : ProcessFile(t)
    \/ \E t \in TimerIds : Cleanup(t)

SpecRemove == Init /\ [][RemoveNext]_vars

\* ------------------------------------------------------------------ claims
InUse(t) == timers[t].state # "free"
\* The callback of timer t starts in this step.
Fires(t) == timers[t].state = "waiting" /\ timers'[t].state = "running"
\* A timer that is started and neither cancelled nor finished.
Live(t) == InUse(t) /\ ~timers[t].cancelled
LiveTimers(n) == {t \in TimerIds : Live(t) /\ timers[t].path = n}

\* C1: within a burst of events for one path (each less than processing_delay
\* after the previous one) the callback _process_file starts once only, and it
\* starts only when a full processing_delay has passed since the last event.
C1_DebounceOnce ==
    [][\A t \in TimerIds :
          Fires(t) => /\ quiet[timers[t].path] >= processing_delay
                      /\ burst_fires[timers[t].path] = 0]_vars

\* C2: at most one live timer per path in every reachable state.
C2_OneLiveTimerPerPath == \A n \in Names : Cardinality(LiveTimers(n)) <= 1

\* C3: a file already present in a type folder is never overwritten by the
\* organizer: it keeps its content (the newcomer being stored under another name).
C3_NoOverwrite ==
    [][\A k \in Folders \X Names : org[k] # NoFile => org'[k] = org[k]]_vars

\* C4: a successful _move_file stores the source under its own name when that
\* name is free and otherwise under <stem>_N<ext> for the smallest N >= 1 whose
\* name is free; every file that was in the target directory keeps its content.
SmallestFreeName(source, present) ==
    IF source \notin present THEN source
    ELSE LET free == {k \in 1..(Cardinality(present) + 1) : Renamed(source, k) \notin present}
         IN  Renamed(source, CHOOSE k \in free : \A j \in free : k <= j)
C4_MoveFileSmallestFree ==
    (mv.pc = "done" /\ mv.result) =>
        LET expected == SmallestFreeName(mv.source, DOMAIN mv.dir0)
        IN  /\ DOMAIN mv.dir = DOMAIN mv.dir0 \cup {expected}
            /\ mv.dir[expected] = "new"
            /\ \A x \in DOMAIN mv.dir0 : mv.dir[x] = mv.dir0[x]
\* A move that went through MaxCollisions renamings.
C4_Witness ==
    /\ mv.pc = "done" /\ mv.result
    /\ mv.target_path = Renamed(mv.source, MaxCollisions)
    /\ Suffix(mv.source) # <<>>

\* C5: a file that appeared at the top level of the watched directory while it
\* was subscribed, and has had no event for one tick, is eventually in its type
\* folder and gone from the top level, unless a further event arrives for it.
Organized(n) == top[n] = NoFile /\ \E f \in Folders : org[<<f, n>>] # NoFile
AwaitingOrganize(n) == n \in DOMAIN pending_files /\ top[n] # NoFile /\ quiet[n] = 1
C5_EventuallyOrganized ==
    \A n \in Names : AwaitingOrganize(n) ~> (Organized(n) \/ quiet[n] = 0)
\* The same for a file the detector can read.
C5_ReadableEventuallyOrganized ==
    \A n \in Names :
        (AwaitingOrganize(n) /\ ~DetectorRaises(n, top[n]))
            ~> (Organized(n) \/ quiet[n] = 0 \/ (top[n] # NoFile /\ DetectorRaises(n, top[n])))

\* The no-op that C6 describes.
StartIsNoOp ==
    /\ ret'.value = FALSE
    /\ UNCHANGED <<is_running, observer, obs_watches, watched_paths, config>>
StartCall == \E r \in BOOLEAN : start_watching(r)
C7_StoppedHasNoWatches ==
    ~is_running => (active_watches = 0 /\ observer # "started")

\* C8: once the service is Stopped no waiting timer starts its callback.
C8_NoFireAfterStop ==
    [][~is_running => \A t \in TimerIds : ~Fires(t)]_vars

SerialState ==
    /\ leaked = {}
    /\ is_running <=> observer = "started"
    /\ ~is_running => observer = "None"
    /\ watched_paths = obs_watches
Quiescent == \A i \in Threads : thr[i].pc = "idle"
\* C11: lifecycle calls that overlap behave as if made one at a time: when no
\* call is in flight the service is in a state that one-at-a-time calls can
\* produce (one observer, no handle of a discarded observer in watched_paths).
C11_CallsSerialized == Quiescent => SerialState
\* One-at-a-time calls do keep the service in such a state.
C11_SerialCallsKeepSerialState == SerialState

\* C12: add_watched_directory on a path that does not exist, or that is not a
\* directory, returns failure and leaves the persisted list, the watch-handle
\* table and the Running/Stopped state as they were.
C12_AddInvalidPathRefused ==
    [][\A p \in PathArgs, s \in BOOLEAN, r \in BOOLEAN :
          (add_watched_directory(p, s, r) /\ resolve(p) \notin fs_dirs) =>
              /\ ret'.value = FALSE
              /\ UNCHANGED <<config, watched_paths, obs_watches, is_running, observer>>]_vars
\* A regular file was refused while the service was Running with a subscription.
C12_Witness ==
    /\ ret = Ret("add_watched_directory", FALSE, "not_a_directory")
    /\ is_running /\ watched_paths # {}

NoDuplicates(l) == \A i \in DOMAIN l, j \in DOMAIN l : l[i] = l[j] => i = j
\* C13: add_watched_directory on a directory that is in the persisted list
\* returns failure and leaves the list unchanged, and the persisted list never
\* holds a path twice, whatever spelling of the path the calls are given.
C13_NoDuplicateDirectories ==
    /\ []NoDuplicates(config.watched_directories)
    /\ [][\A p \in PathArgs, s \in BOOLEAN, r \in BOOLEAN :
             (add_watched_directory(p, s, r)
                /\ InList(resolve(p), config.watched_directories)) =>
                 /\ ret'.value = FALSE
                 /\ config' = config]_vars
\* A second add of a listed directory was refused with both directories listed.
C13_Witness ==
    /\ ret = Ret("add_watched_directory", FALSE, "already_watched")
    /\ Len(config.watched_directories) = Cardinality(Dirs)

\* C14: an add_watched_directory that succeeds (its save succeeding) while the
\* service is Running leaves the directory subscribed with the running
\* observer and in the watch-handle table; one that succeeds while Stopped
\* leaves the table as it was.
C14_AddSubscribesWhenRunning ==
    [][\A p \in PathArgs, r \in BOOLEAN :
          (add_watched_directory(p, TRUE, r) /\ ret'.value = TRUE) =>
              IF is_running
              THEN /\ resolve(p) \in watched_paths'
                   /\ resolve(p) \in obs_watches'
                   /\ observer' = "started"
              ELSE watched_paths' = watched_paths]_vars

\* C15: after a successful remove_watched_directory(p) (its save succeeding)
\* p is in neither the persisted list nor the watch-handle table; a call for
\* a path that is not in the list returns failure and changes nothing.
C15_RemoveUnsubscribes ==
    [][\A p \in PathArgs :
          remove_watched_directory(p, TRUE) =>
              IF InList(resolve(p), config.watched_directories)
              THEN /\ ret'.value = TRUE
                   /\ ~InList(resolve(p), config'.watched_directories)
                   /\ resolve(p) \notin watched_paths'
                   /\ resolve(p) \notin obs_watches'
              ELSE /\ ret'.value = FALSE
                   /\ UNCHANGED <<config, watched_paths, obs_watches, is_running,
                                  observer>>]_vars

\* C16: set_watcher_enabled(b) leaves watcher_enabled = b persisted; called
\* with true in Stopped it runs start_watching, with false in Running it runs
\* stop_watching and the service is Stopped afterwards; in the other two
\* cases Running/Stopped does not change.
C16_SetEnabledPersistsAndToggles ==
    [][\A b \in BOOLEAN, s \in BOOLEAN, r \in BOOLEAN :
          set_watcher_enabled(b, s, r) =>
              /\ config'.watcher_enabled = b
              /\ (b /\ ~is_running) => ret'.log \in {"started", "start_failed", "disabled"}
              /\ (~b /\ is_running) => (~is_running' /\ ret'.log = "stopped")
              /\ (b <=> is_running) => is_running' = is_running]_vars

\* C17: after a successful start_watching the service is Running and the
\* watch-handle table holds exactly the configured directories that exist.
C17_StartSubscribesExistingDirs ==
    [][\A r \in BOOLEAN :
          (start_watching(r) /\ ret'.value = TRUE) =>
              /\ is_running'
              /\ watched_paths' = {d \in fs_dirs : InList(d, config.watched_directories)}]_vars

\* C18: every directory is covered by at most one live subscription, the
\* subscriptions of both FileWatcherService instances of the process counted.
C18_OneSubscriptionPerDirectory == \A d \in Dirs : Subscriptions(d) <= 1

\* The effect of _schedule_file_processing(n) and nothing more: the entry of n
\* holds a timer that has just been started, the timer it held before is
\* cancelled, and every other entry and timer is as it was.
ScheduledOnly(n) ==
    /\ DOMAIN pending_files' = DOMAIN pending_files \cup {n}
    /\ timers'[pending_files'[n]] = NewTimer(n)
    /\ \A m \in DOMAIN pending_files \ {n} : pending_files'[m] = pending_files[m]
    /\ \A t \in TimerIds \ {pending_files'[n]} :
          \/ timers'[t] = timers[t]
          \/ /\ n \in DOMAIN pending_files /\ t = pending_files[n]
             /\ timers'[t] = Cancel(timers, t)[t]
\* C19: on_created and on_moved never classify or move a file: for a file
\* event they only (re)schedule the pending entry of the event's path
\* (src_path of a creation, dest_path of a rename), for a directory event they
\* change nothing; the type folders and their files are untouched by both.
C19_CallbacksOnlySchedule ==
    [][/\ \A k \in {"created", "moved"}, n \in Names, c \in Contents :
             FileEvent(k, n, c) =>
                 /\ UNCHANGED <<org, folders>>
                 /\ top' = [top EXCEPT ![n] = c]
                 /\ Delivered => ScheduledOnly(n)
       /\ \A src \in Names, dst \in Names :
             RenameEvent(src, dst) =>
                 /\ UNCHANGED <<org, folders>>
                 /\ top' = [top EXCEPT ![dst] = top[src], ![src] = NoFile]
                 /\ Delivered => ScheduledOnly(dst)
       /\ \A k \in {"created", "moved"}, f \in Folders :
             DirEvent(k, f) => UNCHANGED <<hdl_vars, top, org>>]_vars
\* A pending file was renamed: the entry of the old name is still there, the
\* new name has an entry of its own with a fresh timer, nothing was organized.
C19_Witness ==
    /\ top["report.pdf"] = NoFile /\ top["a.png"] # NoFile
    /\ DOMAIN pending_files = Names
    /\ timers[pending_files["a.png"]] = NewTimer("a.png")
    /\ timers[pending_files["report.pdf"]].remaining < processing_delay
    /\ \A k \in Folders \X Names : org[k] = NoFile
    /\ folders # {}

\* The step is an event for path n or a step of a timer of path n.
AboutPath(n) ==
    \/ \E k \in {"created", "moved"}, c \in Contents : FileEvent(k, n, c)
    \/ \E src \in Names : RenameEvent(src, n)
    \/ \E t \in TimerIds :
          timers[t].path = n /\ (TimerExpire(t) \/ ProcessFile(t) \/ Cleanup(t))
\* C20: scheduling, firing, running or cleaning up the timer of one path
\* leaves the pending entry of every other path in place, with the same timer
\* and the same time left on it.
C20_PathsIndependent ==
    [][\A n \in Names : \A m \in Names \ {n} :
          (AboutPath(n) /\ m \in DOMAIN pending_files) =>
              /\ m \in DOMAIN pending_files'
              /\ pending_files'[m] = pending_files[m]
              /\ timers'[pending_files[m]] = timers[pending_files[m]]]_vars
\* The callback of one path has finished and removed its entry while the
\* timer of the other path is still waiting.
C20_Witness ==
    /\ DOMAIN pending_files = {"report.pdf"}
    /\ timers[pending_files["report.pdf"]].state = "waiting"
    /\ Organized("a.png")
    /\ top["report.pdf"] # NoFile

\* The entries of the table whose key is the identifier, and those whose key
\* the identifier starts with.
ExactEntries(file_type, table) ==
    {i \in DOMAIN table.file_type : table.file_type[i].key = file_type}
PrefixEntries(file_type, table) ==
    {i \in DOMAIN table.file_type : IsPrefix(table.file_type[i].key, file_type)}

\* C22: for an identifier that is an exact key of the table, get_folder_name
\* (of FileOrganizer and of the command-line organizer) returns that key's
\* folder, also when a key that is a proper prefix of it comes earlier.
C22_ExactMatchFirst ==
    (gf.impl \in {"organizer", "cli"} /\ ExactEntries(gf.file_type, gf.config) # {}) =>
        \A i \in ExactEntries(gf.file_type, gf.config) :
            gf.result = Returned(gf.config.file_type[i].folder)
\* An exact key was looked up in a table that has a proper prefix of it earlier.
C22_Witness ==
    /\ gf.impl = "organizer"
    /\ \E i \in ExactEntries(gf.file_type, gf.config) :
          /\ \E j \in PrefixEntries(gf.file_type, gf.config) : j < i
          /\ gf.result = Returned(gf.config.file_type[i].folder)

\* C23: for an identifier that is no key, get_folder_name returns the folder of
\* the first entry in table order whose key the identifier starts with, also
\* when a later entry has a longer matching key.
C23_FirstPrefixWins ==
    (/\ gf.impl \in {"organizer", "cli"}
     /\ ExactEntries(gf.file_type, gf.config) = {}
     /\ PrefixEntries(gf.file_type, gf.config) # {}) =>
        \A i \in PrefixEntries(gf.file_type, gf.config) :
            (\A j \in PrefixEntries(gf.file_type, gf.config) : i <= j) =>
                gf.result = Returned(gf.config.file_type[i].folder)
\* The identifier starts with two keys and the shorter one comes first.
C23_Witness ==
    /\ gf.impl = "organizer"
    /\ ExactEntries(gf.file_type, gf.config) = {}
    /\ \E i \in PrefixEntries(gf.file_type, gf.config) :
          /\ \E j \in PrefixEntries(gf.file_type, gf.config) :
                i < j /\ Len(gf.config.file_type[i].key) < Len(gf.config.file_type[j].key)
          /\ \A j \in PrefixEntries(gf.file_type, gf.config) : i <= j
          /\ gf.result = Returned(gf.config.file_type[i].folder)

\* C24: get_folder_name (of FileOrganizer, of the command-line organizer and
\* of main.py) never raises and returns a folder of the table or its
\* default; the default for an identifier that is no key and starts with none.
C24_Total ==
    gf.impl # "none" =>
        /\ gf.result.raised = "none"
        /\ gf.result.value \in {gf.config.file_type[i].folder : i \in DOMAIN gf.config.file_type}
                                 \cup {gf.config.default}
        /\ PrefixEntries(gf.file_type, gf.config) = {} =>
               gf.result.value = gf.config.default
\* The same for the two lookups of the application.
C24_OrganizerTotal == gf.impl \in {"organizer", "cli"} => C24_Total

\* C25: ensuring a folder is idempotent: after a call that raised nothing
\* base/name is a directory, and a second call with the same name right after
\* such a call raises nothing either.
EnsuredTwice ==
    /\ ef.prev.impl = ef.last.impl /\ ef.prev.name = ef.last.name
    /\ ~ef.prev.raised
C25_EnsureFolderIdempotent ==
    ef.last.impl # "none" =>
        /\ ~ef.last.raised => ef.dir[ef.last.name] = "dir"
        /\ EnsuredTwice => ~ef.last.raised
\* The same where no regular file has the name of the folder.
C25_IdempotentWithoutObstacle ==
    (ef.last.impl # "none" /\ ef.dir[ef.last.name] # "file") =>
        /\ ~ef.last.raised => ef.dir[ef.last.name] = "dir"
        /\ EnsuredTwice => ~ef.last.raised

\* The file n goes from the top level into a type folder in this step.
Relocated(n) ==
    /\ top[n] # NoFile /\ top'[n] = NoFile
    /\ \E f \in Folders : org'[<<f, n>>] = top[n]
\* The scan's check_and_move call of this step.
ScanMoveStep == scan.pc = "move" /\ scan'.pc = "summary"

\* C26: check_and_move returns success exactly when the file was relocated in
\* the call, and organize counts the file as moved exactly then; a call in
\* which a step failed is counted as processed and not as moved.
C26_CheckAndMoveReportsFailure ==
    [][ScanMoveStep =>
          /\ scan'.returned <=> Relocated(ScanFile)
          /\ scan'.success_count =
                scan.success_count + (IF Relocated(ScanFile) THEN 1 ELSE 0)
          /\ scan'.processed_count = scan.processed_count + 1]_vars
\* The same for the calls in which move_data returned True or the folder could
\* not be created.
C26_HoldsUnlessMoveFails ==
    [][(ScanMoveStep /\ (scan'.res \/ ~scan'.returned)) =>
          /\ scan'.returned <=> Relocated(ScanFile)
          /\ scan'.success_count =
                scan.success_count + (IF Relocated(ScanFile) THEN 1 ELSE 0)
          /\ scan'.processed_count = scan.processed_count + 1]_vars

\* C27: when the detector fails on a file, the scan goes on with the generic
\* type application/octet-stream for it and organizes the file.
C27_DetectorFailureFallsBack ==
    [][(/\ scan.pc = "detect" /\ scan' # scan
        /\ top[ScanFile] # NoFile /\ DetectorRaises(ScanFile, top[ScanFile])) =>
          /\ scan'.pc = "move"
          /\ scan'.file_type = <<"application/", "octet-stream">>]_vars
\* The command-line organizer does so: a file the detector fails on is moved
\* into the folder of application/octet-stream unless the environment refuses.
C27_CliFallsBack ==
    [][(/\ cli.pc = "loop" /\ cli' # cli
        /\ cli.dir[cli.files[cli.index + 1]] = "unreadable") =>
          /\ cli'.log \in {"moved", "would_move", "move_failed", "error_processing"}
          /\ cli'.log = "moved" =>
                \E x \in cli'.dest \ cli.dest : x[1] = "Binary_Files"
          /\ cli'.log = "error_processing" => "Binary_Files" \notin cli.made]_vars

\* The entries of a listing that are file names.
IsName(entry) == entry \in Names
\* The entries of the listing whose iteration has begun.
ScanBegun ==
    SubSeq(scan.files, 1,
           IF scan.pc \in {"detect", "move", "summary"} THEN scan.index + 1
           ELSE scan.index)

C29_SummaryOnceAtEnd ==
    /\ scan.summaries > 0 => scan.pc = "done"
    /\ (scan.pc = "done" /\ scan.log # "error_accessing_directory") => scan.summaries = 1

\* C30: no step removes or moves a sub-directory or an entry inside a type
\* folder; what a scan or a callback puts into a type folder was a regular
\* file at the top level, which it leaves; the command does the same with the
\* entries of its directory.
C30_OnlyTopLevelFilesMove ==
    [][/\ folders \subseteq folders'
       /\ \A k \in Folders \X Names : org[k] # NoFile => org'[k] # NoFile
       /\ \A k \in Folders \X Names :
             (org'[k] # org[k] /\ (scan' # scan \/ timers' # timers)) =>
                 top[k[2]] = org'[k] /\ top'[k[2]] = NoFile
       /\ cli.pc # "idle" =>
             /\ \A n \in CliNames : cli.dir[n] = "dir" => cli'.dir[n] = "dir"
             /\ cli.dest \subseteq cli'.dest /\ cli.made \subseteq cli'.made
             /\ \A x \in cli'.dest \ cli.dest :
                   \E n \in CliNames :
                       /\ cli.dir[n] \in {"file", "unreadable"} /\ cli'.dir[n] = "absent"
                       /\ x[2] \in Pool(n)]_vars
\* A scan that listed a sub-directory and a type folder holding a file that
\* was put there from outside has moved a file and ended.
C30_Witness ==
    /\ scan.pc = "done" /\ scan.res
    /\ \E i \in DOMAIN scan.files : scan.files[i] = SubDir
    /\ \E i \in DOMAIN scan.files : scan.files[i] = "PDFs"
    /\ SubDir \in folders
    /\ org[<<"PDFs", "a.png">>] = "c2"
    /\ org[<<"PDFs", "report.pdf">>] = "c1"

\* The number of places a file of the name is in.
Places(n) ==
    Cardinality({f \in Folders : org[<<f, n>>] # NoFile}) + (IF top[n] # NoFile THEN 1 ELSE 0)

CliRunning == cli.pc \in {"loop", "summary", "done"} /\ cli.files # <<>>

\* C31: a dry run of organize_directory changes nothing in the directory (no
\* folder made, no entry moved, renamed or removed), counts every file of the
\* listing it has come to as processed, and counts no file as moved or failed.
C31_DryRunChangesNothing ==
    /\ [](cli.dry_run /\ CliRunning =>
             /\ cli.stats.processed = cli.index
             /\ cli.stats.moved = 0 /\ cli.stats.errors = 0
             /\ cli.pc \in {"summary", "done"} => cli.stats.processed = Len(cli.files))
    /\ [][(cli.pc # "idle" /\ cli'.dry_run) =>
             /\ cli'.dir = cli.dir
             /\ cli'.dest = cli.dest
             /\ cli'.made = cli.made]_vars
\* A dry run over two files, one of them unreadable for the detector, has
\* printed its summary.
C31_Witness ==
    /\ cli.dry_run /\ cli.pc = "done" /\ cli.summaries = 1
    /\ Len(cli.files) = 2 /\ cli.stats.processed = 2
    /\ \E n \in CliNames : cli.dir[n] = "unreadable"
    /\ cli.made = {}

C37_HandlesArePersisted ==
    \A d \in watched_paths : InList(d, config.watched_directories)

C35_NoMoveAfterRemove ==
    [][~InList(WatchDir, config.watched_directories) =>
          \A n \in Names : ~Relocated(n)]_vars
\* The removal itself ends the subscription: no event for a file of WatchDir
\* starts a timer while the directory is off the list.
C35_NoTimerStartedAfterRemove ==
    [][~InList(WatchDir, config.watched_directories) =>
          \A t \in TimerIds : timers[t].state = "free" => timers'[t].state = "free"]_vars

\* A timer thread whose callback has not started yet.
AwaitsFiring(t) == timers[t].state = "waiting"
\* No event has arrived for a time unit or more.
EventsStopped == \A n \in Names : quiet[n] > 0

\* Every timer that has fired takes the entry of its path out of
\* pending_files, and once events have stopped pending_files becomes empty
\* unless a new event arrives.
C34_PendingEventuallyEmpty ==
    /\ [][\A t \in TimerIds :
             (timers[t].state = "finishing" /\ timers'[t].state = "free") =>
                 timers[t].path \notin DOMAIN pending_files']_vars
    /\ (pending_files # <<>> /\ EventsStopped)
           ~> (pending_files = <<>> \/ ~EventsStopped)

\* C34: once events have stopped pending_files becomes empty, every fired
\* timer removes the entry of its path, and a timer that is still to fire
\* has its path in pending_files, with itself as the entry.
C34_PendingEntriesDrain ==
    /\ C34_PendingEventuallyEmpty
    /\ [](\A t \in TimerIds :
             AwaitsFiring(t) =>
                 /\ timers[t].path \in DOMAIN pending_files
                 /\ pending_files[timers[t].path] = t)

\* C32: load_config leaves watcher_config.json as it is, present or not, and
\* returns the record in the file, or the default record (no directories,
\* watcher disabled) when the file is missing or cannot be parsed.
C32_LoadConfigReadsOnly ==
    [][\A i \in CfCallers :
          (cf.call[i].pc = "idle" /\ cf'.call[i].pc = "loaded") =>
              /\ cf'.file = cf.file
              /\ cf'.call[i].config =
                    (IF cf.file.kind = "json" THEN cf.file.data
                     ELSE [watched_directories |-> <<>>, watcher_enabled |-> FALSE])]_vars
\* load_config has returned the default record for a file that cannot be
\* parsed, and the file is still there, unparsable.
C32_Witness ==
    \E i \in CfCallers :
        /\ cf.call[i].pc = "loaded" /\ cf.call[i].saw = "corrupt"
        /\ cf.call[i].config = DefaultConfig
        /\ cf.file = CfCorrupt
        /\ \A j \in CfCallers \ {i} : cf.call[j].pc = "idle"

\* No call on watcher_config.json is in flight.
CfQuiet == \A i \in CfCallers : cf.call[i].pc = "idle"
\* The file shows every update that a caller has saved: each directory added
\* is in the list and the flag is the one last set.
UpdatesKept ==
    /\ \A d \in cf.added :
          cf.file.kind = "json" /\ InList(d, cf.file.data.watched_directories)
    /\ cf.flag # "unset" =>
          cf.file.kind = "json" /\ (cf.file.data.watcher_enabled <=> cf.flag = "true")

\* C38: when the load-modify-save calls of two callers have returned, the
\* file reflects the updates of both.
C38_NoLostUpdate == CfQuiet => UpdatesKept
\* The same for calls none of which began while another was in flight.
C38_SerialCallsKeepUpdates == (CfQuiet /\ ~cf.overlapped) => UpdatesKept

====
